---------------------------- MODULE Spec2Model ----------------------------
(***************************************************************************)
(* Verification model of the gdalcubes chunk evaluation engine:            *)
(*   - the image-collection source, default_chunking::read, with its       *)
(*     temporal aggregators (src/src/chunking.cpp);                        *)
(*   - the reduce-over-space operator, reduce_space_cube::read_chunk, with *)
(*     its family of single-band reducers (src/unnamed/part_004).          *)
(*                                                                         *)
(* A double is modelled exactly, as a pair <<n, d>>: a rational n/d in     *)
(* lowest terms with d > 0, or one of the three non-finite values with     *)
(* d = 0 (<<0,0>> NaN, <<1,0>> +infinity, <<-1,0>> -infinity).  Rounding   *)
(* is not modelled; every other rule of IEEE arithmetic the code relies on *)
(* (NaN propagation, comparisons with NaN being false, inf - inf = NaN,    *)
(* 0 * inf = NaN) is.                                                      *)
(***************************************************************************)
EXTENDS Integers, Sequences, FiniteSets, TLC

(***************************************************************************)
(* Doubles                                                                 *)
(***************************************************************************)
NaN == <<0, 0>>
PInf == <<1, 0>>
NInf == <<-1, 0>>

Abs(n) == IF n < 0 THEN -n ELSE n

Sign(n) == IF n < 0 THEN -1 ELSE IF n > 0 THEN 1 ELSE 0

RECURSIVE GCD(_, _)
GCD(a, b) == IF b = 0 THEN a ELSE GCD(b, a % b)

\* the double nearest to the rational n/d (d # 0), taken as exact
Norm(n, d) ==
    LET g == GCD(Abs(n), Abs(d))
        s == IF d < 0 THEN -1 ELSE 1
    IN  <<(s * n) \div g, (s * d) \div g>>

\* conversion of an integer to double
D(k) == <<k, 1>>

isnan(v) == v = NaN

isinf(v) == v = PInf \/ v = NInf

isfinite(v) == v[2] # 0

\* a + b
dadd(a, b) ==
    IF isnan(a) \/ isnan(b) THEN NaN
    ELSE IF isinf(a) /\ isinf(b) THEN (IF a = b THEN a ELSE NaN)
    ELSE IF isinf(a) THEN a
    ELSE IF isinf(b) THEN b
    ELSE Norm(a[1] * b[2] + b[1] * a[2], a[2] * b[2])

\* -a
dneg(a) == <<-a[1], a[2]>>

\* the difference taken the other way round, b - a
dsub_reversed(a, b) == dadd(b, dneg(a))

\* a - b
dsub(a, b) == dadd(a, dneg(b))

\* a * b
dmul(a, b) ==
    IF isnan(a) \/ isnan(b) THEN NaN
    ELSE IF isinf(a) \/ isinf(b)
         THEN (IF a[1] = 0 \/ b[1] = 0 THEN NaN
               ELSE <<Sign(a[1]) * Sign(b[1]), 0>>)
    ELSE Norm(a[1] * b[1], a[2] * b[2])

\* a / b
ddiv(a, b) ==
    IF isnan(a) \/ isnan(b) THEN NaN
    ELSE IF isinf(a) THEN (IF isinf(b) THEN NaN
                           ELSE IF b[1] < 0 THEN dneg(a) ELSE a)
    ELSE IF isinf(b) THEN D(0)
    ELSE IF b[1] = 0 THEN (IF a[1] = 0 THEN NaN ELSE <<Sign(a[1]), 0>>)
    ELSE Norm(a[1] * b[2], a[2] * b[1])

\* a < b (false when either is NaN)
dless(a, b) ==
    IF isnan(a) \/ isnan(b) THEN FALSE
    ELSE IF a = b THEN FALSE
    ELSE IF a = NInf \/ b = PInf THEN TRUE
    ELSE IF a = PInf \/ b = NInf THEN FALSE
    ELSE a[1] * b[2] < b[1] * a[2]

\* a minimum that keeps its first argument
dmin_left(a, b) == a

\* std::min(a, b): (b < a) ? b : a
dmin(a, b) == IF dless(b, a) THEN b ELSE a

\* std::max(a, b): (a < b) ? b : a
dmax(a, b) == IF dless(a, b) THEN b ELSE a


(***************************************************************************)
(* Cube geometry and chunk buffers                                         *)
(***************************************************************************)
CeilDiv(a, c) == (a + c - 1) \div c

Min(a, c) == IF a < c THEN a ELSE c

\* number of chunks along t, y, x and in total
count_chunks_t(g) == CeilDiv(g.nt, g.cs_t)

count_chunks_y(g) == CeilDiv(g.ny, g.cs_y)

count_chunks_x(g) == CeilDiv(g.nx, g.cs_x)

count_chunks(g) == count_chunks_t(g) * count_chunks_y(g) * count_chunks_x(g)

\* chunk id -> <<ct, cy, cx>>: row-major, x fastest, then y, then t
chunk_coords(g, cid) ==
    <<cid \div (count_chunks_y(g) * count_chunks_x(g)),
      (cid \div count_chunks_x(g)) % count_chunks_y(g),
      cid % count_chunks_x(g)>>

\* actual size <<t, y, x>> of chunk cid; chunks at the boundary are smaller
chunk_size(g, cid) ==
    LET c == chunk_coords(g, cid)
    IN  <<Min(g.cs_t, g.nt - c[1] * g.cs_t),
          Min(g.cs_y, g.ny - c[2] * g.cs_y),
          Min(g.cs_x, g.nx - c[3] * g.cs_x)>>

\* the range test without id < 0: a negative id passes as valid
outside_upper_only(cid, n) == cid >= n

\* id < 0 || id >= count_chunks(): the chunk is outside of the cube
outside(cid, n) == cid < 0 \/ cid >= n

\* std::make_shared<chunk_data>(): null buffer, size zero
EmptyChunk == [size |-> <<0, 0, 0, 0>>, buf |-> <<>>]

\* number of cells of one band of a buffer of size <<b, t, y, x>>
Cells_one_band(size) == size[2] * size[3] * size[4]

\* number of cells of a buffer of size <<b, t, y, x>>
Cells(size) == size[1] * size[2] * size[3] * size[4]

\* calloc(n, sizeof(double)): n doubles, all 0
calloc(n) == [k \in 1..n |-> D(0)]

\* the npix cells of a buffer that start at offset off (0-based)
get_plane(buf, off, npix) == [p \in 1..npix |-> buf[off + p]]

\* the buffer with the cells from offset off on replaced by plane
put_plane(buf, off, plane) ==
    [k \in 1..Len(buf) |->
        IF k > off /\ k <= off + Len(plane) THEN plane[k - off] ELSE buf[k]]

(***************************************************************************)
(* Temporal aggregators of the image-collection source                     *)
(***************************************************************************)
\* aggregation_state_none::update: memcpy of the image plane
none_update(chunk, img) == img

\* aggregation_state_min::update
min_update(chunk, img) ==
    [p \in 1..Len(chunk) |->
        IF isnan(img[p]) THEN chunk[p]
        ELSE IF isnan(chunk[p]) THEN img[p]
        ELSE dmin(chunk[p], img[p])]

\* aggregation_state_max::update
max_update(chunk, img) ==
    [p \in 1..Len(chunk) |->
        IF isnan(img[p]) THEN chunk[p]
        ELSE IF isnan(chunk[p]) THEN img[p]
        ELSE dmax(chunk[p], img[p])]

\* aggregation_state_mean::update, one pixel of the incremental branch:
\* <<new cell, new _val_count[b][t][i]>>
mean_pixel(c, v, n) ==
    IF isnan(v) THEN <<c, n>>
    ELSE IF isnan(c) THEN <<v, n>>
    ELSE LET sum == dadd(dmul(c, D(n)), c)
             n1 == (n + 1) % 65536
         IN  <<ddiv(sum, D(n1)), n1>>

\* aggregation_state_mean::update: the new plane, _img_count and _val_count
mean_update(chunk, img, b, t, ic, vc) ==
    IF <<b, t>> \notin DOMAIN ic
    THEN [plane |-> img, ic |-> ic @@ (<<b, t>> :> 1), vc |-> vc]
    ELSE LET ic1 == [ic EXCEPT ![<<b, t>>] = (@ + 1) % 65536]
             vc1 == IF <<b, t>> \in DOMAIN vc THEN vc
                    ELSE vc @@ (<<b, t>> :> [p \in 1..Len(chunk) |-> ic1[<<b, t>>]])
             px == [p \in 1..Len(chunk) |-> mean_pixel(chunk[p], img[p], vc1[<<b, t>>][p])]
         IN  [plane |-> [p \in 1..Len(chunk) |-> px[p][1]],
              ic |-> ic1,
              vc |-> [vc1 EXCEPT ![<<b, t>>] = [p \in 1..Len(chunk) |-> px[p][2]]]]

\* agg->update(cbuf, img_buf, b, it) for the aggregator the view selects;
\* every method other than mean, min and max gets aggregation_state_none
agg_update(m, chunk, img, b, t, ic, vc) ==
    IF m = "MEAN" THEN mean_update(chunk, img, b, t, ic, vc)
    ELSE IF m = "MIN" THEN [plane |-> min_update(chunk, img), ic |-> ic, vc |-> vc]
    ELSE IF m = "MAX" THEN [plane |-> max_update(chunk, img), ic |-> ic, vc |-> vc]
    ELSE [plane |-> none_update(chunk, img), ic |-> ic, vc |-> vc]


(***************************************************************************)
(* State                                                                   *)
(***************************************************************************)
VARIABLES
    pc,            \* position of the read in progress
    cube,          \* geometry of the cube that is read: the source's own cube,
                   \* or the input cube of the reduce-over-space cube
    method,        \* _c->view().aggregation_method()
    id,            \* the chunk id passed to read / read_chunk
    out,           \* the chunk under construction, then the chunk returned
    datasets,      \* rows returned by find_range_st, ordered by descriptor
    i,             \* loop index: row of datasets / id of the next input chunk
    band_rels,     \* <<band_name, band_num>> of the rows of the current descriptor
    b,             \* index into band_rels of the band to read next
    it,            \* time slot of the current descriptor
    img_count,     \* aggregation_state_mean::_img_count, keyed <<b, t>>
    val_count,     \* aggregation_state_mean::_val_count, keyed <<b, t>>
    queried,       \* number of calls of find_range_st so far
    fed,           \* the band planes read from the raster facility so far
    warp_ok,       \* GDALTranslate and GDALWarp of the current descriptor succeeded
    reducer_bands, \* reduce_space_cube::_reducer_bands
    in_bands,      \* band names of the input cube of the reduce-over-space cube
    reducers,      \* the reducer objects of the read_chunk in progress
    reads,         \* input chunks read so far: <<id, chunk>>
    graph,         \* the operator graph make_constructible_json is called on
    json,          \* the description make_constructible_json returned
    rebuilt,       \* the graph create_from_json built from json
    fs,            \* names of the image collection files that exist
    calls,         \* the concurrent calls of read: position, rasters, planes read
    tmpfiles,      \* content of the temporary GTiff files, by name
    mask,          \* the image_mask object apply is called on
    mask_buf,      \* plane of the mask band
    pixel_buf,     \* band planes of the image, before apply
    masked,        \* band planes of the image, after apply
    cubes,         \* the cube objects constructed so far, in creation order
    call,          \* the last call made on the cubes and how it ended
    points,        \* the query points of query_points: x, y, t of each
    dats,          \* what read_chunk of the queried cube returns, by chunk id
    chunk_index,   \* query_points' chunk_index: chunk id -> indexes of its points
    iter,          \* keys of chunk_index the read loop has not visited yet
    matrix,        \* query_points' out: one row per band, one column per point
    read_ids,      \* chunk ids read_chunk was called with, in call order
    config_instance, \* config::_instance: 0 is the null pointer
    configs,       \* number of config objects constructed so far
    callers        \* the threads calling config::instance(): position, pointer

vars == <<pc, cube, method, id, out, datasets, i, band_rels, b, it, img_count,
          val_count, queried, fed, warp_ok, reducer_bands, in_bands, reducers,
          reads, graph, json, rebuilt, fs, calls, tmpfiles, mask, mask_buf,
          pixel_buf, masked, cubes, call, points, dats, chunk_index, iter, matrix,
          read_ids, config_instance, configs, callers>>

srcvars == <<method, datasets, band_rels, b, it, img_count, val_count, queried, fed,
             warp_ok>>

rsvars == <<reducer_bands, in_bands, reducers, reads>>

\* the variables of the graph factory
gvars == <<graph, json, rebuilt, fs>>

\* the variables of concurrent reads
pvars == <<calls, tmpfiles>>

\* the variables of image masks
mvars == <<mask, mask_buf, pixel_buf, masked>>

\* the variables of cube construction
cvars == <<cubes, call>>

\* the variables of point queries
qvars == <<points, dats, chunk_index, iter, matrix, read_ids>>

\* the variables of the configuration singleton
ivars == <<config_instance, configs, callers>>

\* the variables of the models that follow the masks
xvars == <<cvars, qvars, ivars>>

\* no call was made yet
NoCall == [op |-> "none"]

\* the models that follow the masks are idle
IdleCons == cubes = <<>> /\ call = NoCall

NoMap == [k \in {} |-> 0]

\* no query was made
IdleQuery ==
    /\ points = <<>>
    /\ dats = NoMap
    /\ chunk_index = NoMap
    /\ iter = <<>>
    /\ matrix = <<>>
    /\ read_ids = <<>>

\* no thread asked for the configuration
IdleConfig ==
    /\ config_instance = 0
    /\ configs = 0
    /\ callers = NoMap

IdleX == IdleCons /\ IdleQuery /\ IdleConfig

\* no graph, no description
NoNode == [cube_type |-> "none"]

(***************************************************************************)
(* The image-collection source: default_chunking::read                     *)
(***************************************************************************)
\* the chunk ids a caller passes to a cube of n chunks: the valid ones and
\* some on either side
ChunkIds(n) == (-1)..(n + 1)

\* largest number of catalog rows that intersect one chunk
MaxRows == 2

\* number of distinct raster descriptors in the catalog
MaxDesc == 2

\* bands of the image collection, in the order of get_bands()
bands == <<"B04", "B08">>

\* largest band number a raster file of the collection has
MaxBandNum == Len(bands) + 1

\* pixel values the raster facility delivers
PixVals == {NaN, D(1), D(3), D(5)}

Methods == {"NONE", "MEAN", "MIN", "MAX", "MEDIAN"}

\* the view of the source: 3 time steps, 2 x 1 pixels, chunks of 2 x 2 x 1
SrcCube == [nt |-> 3, ny |-> 2, nx |-> 1, cs_t |-> 2, cs_y |-> 2, cs_x |-> 1]

\* a row of find_range_st; datetime is the time slot the image falls into,
\* (dt - cextent.t0) / view.dt()
Rows(st) ==
    [descriptor : 1..MaxDesc, band_name : 1..Len(bands),
     band_num : 1..MaxBandNum, datetime : 0..(st - 1)]

\* the rows a query can return for a chunk of st time slots: ordered by
\* descriptor; the rows of one descriptor are the bands of one image, with one
\* datetime, distinct collection bands and distinct band numbers
Catalogs(st) ==
    {ds \in UNION {[1..n -> Rows(st)] : n \in 0..MaxRows} :
        /\ \A k \in 1..(Len(ds) - 1) : ds[k].descriptor <= ds[k + 1].descriptor
        /\ \A k, l \in 1..Len(ds) :
              (k # l /\ ds[k].descriptor = ds[l].descriptor) =>
                  /\ ds[k].datetime = ds[l].datetime
                  /\ ds[k].band_name # ds[l].band_name
                  /\ ds[k].band_num # ds[l].band_num}

\* index of the first row at or after k (0-based) that is past the end or
\* has another descriptor: where the inner while loop stops
RECURSIVE group_end(_, _, _)
group_end(ds, name, k) ==
    IF k < Len(ds) /\ ds[k + 1].descriptor = name
    THEN group_end(ds, name, k + 1)
    ELSE k

\* the offset without the time slot: every image lands in slot 0
plane_offset_slot0(size, band_num, t) ==
    (band_num - 1) * size[2] * size[3] * size[4]

\* offset of the plane of band number band_num and slot t in a buffer of size
plane_offset(size, band_num, t) ==
    (band_num - 1) * size[2] * size[3] * size[4] + t * size[3] * size[4]

\* the 0-based indices k of the accesses datasets[k] that the processing of
\* the group starting at row i0 makes: the tests of the grouping loop, which
\* read datasets[i] before they compare i with datasets.size(), the band
\* number passed to gdal_translate, read at the index the loop ended with,
\* and the datetime of the row before it
row_accesses(ds, i0) ==
    LET j == group_end(ds, ds[i0 + 1].descriptor, i0)
    IN  (i0..j) \cup {j} \cup {j - 1}

InitBase ==
    /\ id = 0
    /\ out = EmptyChunk
    /\ datasets = <<>>
    /\ i = 0
    /\ band_rels = <<>>
    /\ b = 0
    /\ it = 0
    /\ img_count = NoMap
    /\ val_count = NoMap
    /\ queried = 0
    /\ fed = <<>>
    /\ warp_ok = TRUE
    /\ reducers = <<>>
    /\ reads = <<>>
    /\ graph = NoNode
    /\ json = NoNode
    /\ rebuilt = NoNode
    /\ fs = {}
    /\ calls = <<>>
    /\ tmpfiles = <<>>
    /\ mask = [kind |-> "none"]
    /\ mask_buf = <<>>
    /\ pixel_buf = <<>>
    /\ masked = <<>>

InitCommon ==
    /\ InitBase
    /\ IdleX

InitSrc ==
    /\ pc = "idle"
    /\ cube = SrcCube
    /\ method \in Methods
    /\ reducer_bands = <<>>
    /\ in_bands = <<>>
    /\ InitCommon

\* read(id), lines 156-159: an id outside the cube returns an empty chunk
read_out_of_range ==
    /\ pc = "idle"
    /\ \E rid \in ChunkIds(count_chunks(cube)) :
          /\ outside(rid, count_chunks(cube))
          /\ id' = rid
    /\ out' = EmptyChunk
    /\ pc' = "done"
    /\ UNCHANGED <<cube, i>>
    /\ UNCHANGED srcvars
    /\ UNCHANGED rsvars
    /\ UNCHANGED gvars
    /\ UNCHANGED pvars
    /\ UNCHANGED mvars
    /\ UNCHANGED xvars

\* read(id), lines 161-259: allocate the chunk, query the catalog, create the
\* aggregator; an empty query result returns an empty chunk
read_begin ==
    /\ pc = "idle"
    /\ \E rid \in ChunkIds(count_chunks(cube)) :
          LET size_tyx == chunk_size(cube, rid)
              size_btyx == <<Len(bands), size_tyx[1], size_tyx[2], size_tyx[3]>>
          IN  /\ ~outside(rid, count_chunks(cube))
              /\ id' = rid
              /\ \E ds \in Catalogs(size_tyx[1]) :
                    /\ datasets' = ds
                    /\ IF ds = <<>>
                       THEN /\ out' = EmptyChunk
                            /\ pc' = "done"
                       ELSE /\ out' = [size |-> size_btyx, buf |-> calloc(Cells(size_btyx))]
                            /\ pc' = "group"
    /\ queried' = queried + 1
    /\ i' = 0
    /\ img_count' = NoMap
    /\ val_count' = NoMap
    /\ UNCHANGED <<cube, method, band_rels, b, it, fed, warp_ok>>
    /\ UNCHANGED rsvars
    /\ UNCHANGED gvars
    /\ UNCHANGED pvars
    /\ UNCHANGED mvars
    /\ UNCHANGED xvars

\* lines 263-365, one descriptor: collect its rows, open and warp the raster,
\* find the time slot.  The inner loop reads datasets[i] before it tests
\* i < datasets.size(), so the last group ends with a read past the end of
\* the vector, which the build may survive or not.  A failed GDALOpen
\* throws; a failed GDALTranslate or GDALWarp prints a message and the read
\* goes on with the output dataset as Create left it.
read_group ==
    /\ pc = "group"
    /\ i < Len(datasets)
    /\ LET descriptor_name == datasets[i + 1].descriptor
           j == group_end(datasets, descriptor_name, i)
       IN  /\ i' = j
           /\ band_rels' = [k \in 1..(j - i) |->
                               <<datasets[i + k].band_name, datasets[i + k].band_num>>]
           /\ it' = datasets[j].datetime
           /\ \E outcome \in {"warped", "open failed", "translate failed", "warp failed"} :
                 /\ pc' = IF outcome = "open failed" THEN "error" ELSE "band"
                 /\ warp_ok' = (outcome \in {"warped", "open failed"})
    /\ b' = 0
    /\ UNCHANGED <<cube, method, id, out, datasets, img_count, val_count, queried, fed>>
    /\ UNCHANGED rsvars
    /\ UNCHANGED gvars
    /\ UNCHANGED pvars
    /\ UNCHANGED mvars
    /\ UNCHANGED xvars

\* the read past the end of datasets at the end of the last group faults
read_group_fault ==
    /\ pc = "group"
    /\ i < Len(datasets)
    /\ group_end(datasets, datasets[i + 1].descriptor, i) = Len(datasets)
    /\ pc' = "crashed"
    /\ UNCHANGED <<cube, method, id, out, datasets, i, band_rels, b, it,
                   img_count, val_count, queried, fed, warp_ok>>
    /\ UNCHANGED rsvars
    /\ UNCHANGED gvars
    /\ UNCHANGED pvars
    /\ UNCHANGED mvars
    /\ UNCHANGED xvars

\* lines 368-382, the body of the band loop for the plane img that RasterIO
\* delivers for band_rels[b] = <<.., band_num>>: under NONE it goes straight
\* into the chunk, otherwise through agg->update(cbuf, img_buf, b, it).  A
\* band number beyond the chunk's bands addresses memory past the buffer:
\* the chunk itself is then not touched.
band_step(m, o, ic, vc, band_num, bidx, t, img) ==
    LET npix == o.size[3] * o.size[4]
        off == plane_offset(o.size, band_num, t)
        inside == off + npix <= Len(o.buf)
    IN  IF m = "NONE"
        THEN [out |-> IF inside THEN [o EXCEPT !.buf = put_plane(@, off, img)] ELSE o,
              ic |-> ic, vc |-> vc]
        ELSE LET cbuf == IF inside THEN get_plane(o.buf, off, npix)
                         ELSE [p \in 1..npix |-> NaN]
                 r == agg_update(m, cbuf, img, bidx, t, ic, vc)
             IN  [out |-> IF inside THEN [o EXCEPT !.buf = put_plane(@, off, r.plane)]
                          ELSE o,
                  ic |-> r.ic, vc |-> r.vc]

\* the planes of npix pixels RasterIO can deliver from gdal_out: warped
\* data, or the zeros of a dataset that was created and never written
RasterIO(npix, warped) ==
    IF warped THEN [1..npix -> PixVals] ELSE {[p \in 1..npix |-> D(0)]}

\* lines 368-385, one band of the current descriptor
read_band ==
    /\ pc = "band"
    /\ b < Len(band_rels)
    /\ \E img \in RasterIO(out.size[3] * out.size[4], warp_ok) :
          LET band_num == band_rels[b + 1][2]
              r == band_step(method, out, img_count, val_count, band_num, b, it, img)
          IN  /\ fed' = Append(fed, [band_name |-> band_rels[b + 1][1],
                                     band_num |-> band_num, b |-> b, t |-> it,
                                     descriptor |-> datasets[i].descriptor,
                                     warped |-> warp_ok, img |-> img])
              /\ out' = r.out
              /\ img_count' = r.ic
              /\ val_count' = r.vc
    /\ b' = b + 1
    /\ pc' = IF b + 1 < Len(band_rels) THEN "band"
             ELSE IF i < Len(datasets) THEN "group"
             ELSE "finalize"
    /\ UNCHANGED <<cube, method, id, datasets, i, band_rels, it, queried, warp_ok>>
    /\ UNCHANGED rsvars
    /\ UNCHANGED gvars
    /\ UNCHANGED pvars
    /\ UNCHANGED mvars
    /\ UNCHANGED xvars

\* lines 387-394: agg->finalize, which drops the counters, and return out
read_finalize ==
    /\ pc = "finalize"
    /\ img_count' = NoMap
    /\ val_count' = NoMap
    /\ pc' = "done"
    /\ UNCHANGED <<cube, method, id, out, datasets, i, band_rels, b, it, queried, fed,
                   warp_ok>>
    /\ UNCHANGED rsvars
    /\ UNCHANGED gvars
    /\ UNCHANGED pvars
    /\ UNCHANGED mvars
    /\ UNCHANGED xvars

NextSrc ==
    \/ read_out_of_range
    \/ read_begin
    \/ read_group
    \/ read_group_fault
    \/ read_band
    \/ read_finalize

SpecSrc == InitSrc /\ [][NextSrc]_vars


(***************************************************************************)
(* The single-band reducers of the reduce-over-space cube                  *)
(***************************************************************************)
ReducerNames == {"min", "max", "mean", "median", "sum", "count", "prod", "var", "sd"}

\* x with the element at 0-based index k replaced by v
SetAt(x, k, v) == [x EXCEPT ![k + 1] = v]

\* sqrt(v); an irrational root of n/d is kept as the triple <<n, d, 2>>
dsqrt(v) ==
    IF isnan(v) \/ v = NInf THEN NaN
    ELSE IF v = PInf THEN PInf
    ELSE IF v[1] < 0 THEN NaN
    ELSE IF /\ \E r \in 0..v[1] : r * r = v[1]
            /\ \E r \in 1..v[2] : r * r = v[2]
         THEN <<CHOOSE r \in 0..v[1] : r * r = v[1], CHOOSE r \in 1..v[2] : r * r = v[2]>>
    ELSE <<v[1], v[2], 2>>

\* std::sort of a list of non-NaN doubles
RECURSIVE Insert(_, _)
Insert(q, v) ==
    IF q = <<>> THEN <<v>>
    ELSE IF dless(v, Head(q)) THEN <<v>> \o q
    ELSE <<Head(q)>> \o Insert(Tail(q), v)

RECURSIVE sort(_)
sort(q) == IF q = <<>> THEN <<>> ELSE Insert(sort(Tail(q)), Head(q))

\* init with the accumulators of min and max started at 0, like sum's
init_minmax_zero(name, a, band_idx_in, band_idx_out) ==
    LET st == a.size[2]
        fill(v) == [k \in 1..Len(a.buf) |->
                       IF k - 1 >= band_idx_out * st /\ k - 1 < band_idx_out * st + st
                       THEN v ELSE a.buf[k]]
        zeros == [t \in 1..st |-> 0]
        rd == [name |-> name, band_idx_in |-> band_idx_in, band_idx_out |-> band_idx_out,
               count |-> IF name \in {"mean", "var", "sd"} THEN zeros ELSE <<>>,
               mean |-> IF name \in {"var", "sd"} THEN [t \in 1..st |-> D(0)] ELSE <<>>,
               buckets |-> IF name = "median" THEN [t \in 1..st |-> <<>>] ELSE <<>>]
    IN  [rd |-> rd,
         a |-> [a EXCEPT !.buf =
                   IF name \in {"sum", "count", "mean", "var", "sd", "min", "max"}
                   THEN fill(D(0))
                   ELSE IF name = "prod" THEN fill(D(1))
                   ELSE @]]

\* a reducer object after init(a, band_idx_in, band_idx_out, in_cube), and
\* the result chunk a after it: every init writes cell band_idx_out *
\* a->size()[1] + it of a, except median's, which only sizes its buckets
init(name, a, band_idx_in, band_idx_out) ==
    LET st == a.size[2]
        fill(v) == [k \in 1..Len(a.buf) |->
                       IF k - 1 >= band_idx_out * st /\ k - 1 < band_idx_out * st + st
                       THEN v ELSE a.buf[k]]
        zeros == [t \in 1..st |-> 0]
        rd == [name |-> name, band_idx_in |-> band_idx_in, band_idx_out |-> band_idx_out,
               count |-> IF name \in {"mean", "var", "sd"} THEN zeros ELSE <<>>,
               mean |-> IF name \in {"var", "sd"} THEN [t \in 1..st |-> D(0)] ELSE <<>>,
               buckets |-> IF name = "median" THEN [t \in 1..st |-> <<>>] ELSE <<>>]
    IN  [rd |-> rd,
         a |-> [a EXCEPT !.buf =
                   IF name \in {"sum", "count", "mean", "var", "sd"} THEN fill(D(0))
                   ELSE IF name = "prod" THEN fill(D(1))
                   ELSE IF name \in {"min", "max"} THEN fill(NaN)
                   ELSE @]]

\* what combine does with one value v of time slot t that it does not skip
\* (the uint32_t counters stay far from their width)
accumulate(s, t, v) ==
    LET a == s.a
        rd == s.rd
        w == rd.band_idx_out * a.size[2] * a.size[3] * a.size[4] + t
        acc == a.buf[w + 1]
        store(x) == [a EXCEPT !.buf = SetAt(@, w, x)]
    IN  IF rd.name = "sum" THEN [a |-> store(dadd(acc, v)), rd |-> rd]
        ELSE IF rd.name = "prod" THEN [a |-> store(dmul(acc, v)), rd |-> rd]
        ELSE IF rd.name = "count" THEN [a |-> store(dadd(acc, D(1))), rd |-> rd]
        ELSE IF rd.name = "min"
             THEN [a |-> store(IF isnan(acc) THEN v ELSE dmin(acc, v)), rd |-> rd]
        ELSE IF rd.name = "max"
             THEN [a |-> store(IF isnan(acc) THEN v ELSE dmax(acc, v)), rd |-> rd]
        ELSE IF rd.name = "mean"
             THEN [a |-> store(dadd(acc, v)),
                   rd |-> [rd EXCEPT !.count[t + 1] = @ + 1]]
        ELSE IF rd.name = "median"
             THEN [a |-> a, rd |-> [rd EXCEPT !.buckets[t + 1] = Append(@, v)]]
        ELSE \* var, sd: Welford's update
             LET count == rd.count[t + 1] + 1
                 delta == dsub(v, rd.mean[t + 1])
                 mean == dadd(rd.mean[t + 1], ddiv(delta, D(count)))
             IN  [a |-> store(dadd(acc, dmul(delta, dsub(v, mean)))),
                  rd |-> [rd EXCEPT !.count[t + 1] = count, !.mean[t + 1] = mean]]

\* no test at all: NaN is accumulated like any value
skipped_never(v) == FALSE

\* the test every combine makes before it uses a value
skipped(v) == isnan(v)

\* the values of band band_idx_in of chunk x in the order combine visits
\* them, each with its time slot: <<it, v>>
pixel_list(x, band_idx_in) ==
    LET npix == x.size[3] * x.size[4]
    IN  [k \in 1..(x.size[2] * npix) |->
            <<(k - 1) \div npix,
              x.buf[band_idx_in * x.size[2] * npix + k]>>]

\* the accumulation of a list of <<slot, value>>, none skipped
RECURSIVE accumulate_all(_, _)
accumulate_all(s, q) ==
    IF q = <<>> THEN s
    ELSE accumulate_all(accumulate(s, Head(q)[1], Head(q)[2]), Tail(q))

\* combine(a, b, chunk_id) of the reducer rd
RECURSIVE combine_list(_, _)
combine_list(s, q) ==
    IF q = <<>> THEN s
    ELSE combine_list(IF skipped(Head(q)[2]) THEN s
                      ELSE accumulate(s, Head(q)[1], Head(q)[2]),
                      Tail(q))

combine(a, rd, x) == combine_list([a |-> a, rd |-> rd], pixel_list(x, rd.band_idx_in))

\* the upper middle element also for lists of even length
median_of_upper(list) == list[(Len(list) \div 2) + 1]

\* median of a sorted non-empty list
median_of(list) ==
    IF Len(list) % 2 = 1 THEN list[(Len(list) \div 2) + 1]
    ELSE ddiv(dadd(list[(Len(list) \div 2) + 1], list[Len(list) \div 2]), D(2))

\* finalize with the mean divided like the variance, by count - 1
finalize_cell_mean_as_var(rd, acc, t) ==
    IF rd.name \in {"mean", "var"}
    THEN (IF rd.count[t + 1] > 1 THEN ddiv(acc, D(rd.count[t + 1] - 1)) ELSE NaN)
    ELSE IF rd.name = "sd"
    THEN (IF rd.count[t + 1] > 1 THEN dsqrt(ddiv(acc, D(rd.count[t + 1] - 1))) ELSE NaN)
    ELSE IF rd.name = "median"
    THEN (IF rd.buckets[t + 1] = <<>> THEN NaN ELSE median_of(sort(rd.buckets[t + 1])))
    ELSE acc

\* the value finalize leaves in the cell of time slot t (0-based)
finalize_cell(rd, acc, t) ==
    IF rd.name = "mean"
    THEN (IF rd.count[t + 1] > 0 THEN ddiv(acc, D(rd.count[t + 1])) ELSE NaN)
    ELSE IF rd.name = "var"
    THEN (IF rd.count[t + 1] > 1 THEN ddiv(acc, D(rd.count[t + 1] - 1)) ELSE NaN)
    ELSE IF rd.name = "sd"
    THEN (IF rd.count[t + 1] > 1 THEN dsqrt(ddiv(acc, D(rd.count[t + 1] - 1))) ELSE NaN)
    ELSE IF rd.name = "median"
    THEN (IF rd.buckets[t + 1] = <<>> THEN NaN ELSE median_of(sort(rd.buckets[t + 1])))
    ELSE acc

\* finalize(a): the result chunk; the cell of slot it is band_idx_out *
\* a->size()[1] + it
finalize(a, rd) ==
    LET st == a.size[2]
    IN  [a EXCEPT !.buf =
            [k \in 1..Len(@) |->
                IF k - 1 >= rd.band_idx_out * st /\ k - 1 < rd.band_idx_out * st + st
                THEN finalize_cell(rd, @[k], (k - 1) - rd.band_idx_out * st)
                ELSE @[k]]]


(***************************************************************************)
(* The reduce-over-space cube: reduce_space_cube::read_chunk               *)
(***************************************************************************)
\* largest number of (reducer, band) pairs of a general reduce-over-space cube
MaxPairs == 2

\* count_chunks() of the reduce-over-space cube over the input cube g: one
\* chunk per time chunk of the input
rs_count_chunks(g) == count_chunks_t(g)

\* chunk_size(id) of the reduce-over-space cube: the time steps of the input
\* chunks of time chunk id, one pixel
rs_chunk_size(g, cid) ==
    <<chunk_size(g, cid * count_chunks_y(g) * count_chunks_x(g))[1], 1, 1>>

\* bands().get_index(name): 0-based position of the band called name
get_index(bs, name) == (CHOOSE k \in 1..Len(bs) : bs[k] = name) - 1

\* what _in_cube->read_chunk(cid) can return: an empty chunk, or a chunk of
\* the input's band count and chunk size with any of the input's values
InChunks(g, nb, cid) ==
    LET sz == <<nb, chunk_size(g, cid)[1], chunk_size(g, cid)[2], chunk_size(g, cid)[3]>>
    IN  {EmptyChunk} \cup {[size |-> sz, buf |-> bf] : bf \in [1..Cells(sz) -> g.vals]}

\* the first input chunk computed from the chunks along x only
first_input_x(g, cid) == cid * count_chunks_x(g)

\* first input chunk of output chunk cid, and the one after its last
first_input(g, cid) == cid * count_chunks_x(g) * count_chunks_y(g)

end_input(g, cid) == (cid + 1) * count_chunks_x(g) * count_chunks_y(g)

\* lines 363-392: create and init the reducers from pair k on; an unknown
\* reducer name throws
RECURSIVE init_all(_, _, _, _, _)
init_all(a, rds, rb, bs, k) ==
    IF k > Len(rb) THEN [a |-> a, rds |-> rds, ok |-> TRUE]
    ELSE IF rb[k][1] \notin ReducerNames THEN [a |-> a, rds |-> rds, ok |-> FALSE]
    ELSE LET r == init(rb[k][1], a, get_index(bs, rb[k][2]), k - 1)
         IN  init_all(r.a, Append(rds, r.rd), rb, bs, k + 1)

\* lines 397-399: every reducer from ib on combines the input chunk x
RECURSIVE combine_all(_, _, _, _)
combine_all(a, rds, x, ib) ==
    IF ib > Len(rds) THEN [a |-> a, rds |-> rds]
    ELSE LET r == combine(a, rds[ib], x)
         IN  combine_all(r.a, [rds EXCEPT ![ib] = r.rd], x, ib + 1)

\* lines 401-403: every reducer from ib on finalizes
RECURSIVE finalize_all(_, _, _)
finalize_all(a, rds, ib) ==
    IF ib > Len(rds) THEN a
    ELSE finalize_all(finalize(a, rds[ib]), rds, ib + 1)

\* input cubes: geometry and the pixel values the cube holds
RsColumn == [nt |-> 3, cs_t |-> 2, ny |-> 2, cs_y |-> 1, nx |-> 1, cs_x |-> 1,
             vals |-> {NaN, D(-1), D(2)}]

RsTile == [nt |-> 1, cs_t |-> 1, ny |-> 1, cs_y |-> 1, nx |-> 3, cs_x |-> 2,
           vals |-> {NaN, D(0), D(3)}]

RsGrid == [nt |-> 2, cs_t |-> 1, ny |-> 2, cs_y |-> 1, nx |-> 2, cs_x |-> 1,
           vals |-> {NaN, D(2)}]

RsReduced == [nt |-> 3, cs_t |-> 2, ny |-> 1, cs_y |-> 1, nx |-> 1, cs_x |-> 1,
              vals |-> {NaN, D(-1), D(2)}]

RsPair == [nt |-> 2, cs_t |-> 2, ny |-> 2, cs_y |-> 1, nx |-> 1, cs_x |-> 1,
           vals |-> {NaN, D(2)}]

RsInf == [nt |-> 1, cs_t |-> 1, ny |-> 2, cs_y |-> 1, nx |-> 1, cs_x |-> 1,
          vals |-> {NaN, D(1), PInf, NInf}]

\* band names of the input cube
InBands == <<"B04", "B08">>

AllPairs == {<<r, n>> : r \in ReducerNames, n \in {InBands[k] : k \in 1..Len(InBands)}}

\* lists of one pair, lists of up to MaxPairs pairs, and the lists that put
\* mean, sum and count on one band
OnePair == {<<q>> : q \in AllPairs}

PairLists == UNION {[1..n -> AllPairs] : n \in 2..MaxPairs}

MeanSumCount ==
    {rb \in [1..3 -> AllPairs] :
        /\ {rb[k][1] : k \in 1..3} = {"mean", "sum", "count"}
        /\ rb[1][2] = rb[2][2] /\ rb[2][2] = rb[3][2]}

\* the cubes the model reads: <<input cube, _reducer_bands>>
RsConfigs ==
    ({RsColumn, RsTile, RsGrid, RsReduced, RsInf} \X OnePair)
        \cup ({RsPair} \X PairLists)
        \cup ({RsTile, RsInf, RsReduced} \X MeanSumCount)

InitRS ==
    /\ pc = "rs_idle"
    /\ \E c \in RsConfigs : cube = c[1] /\ reducer_bands = c[2]
    /\ in_bands = InBands
    /\ method = "NONE"
    /\ InitCommon

\* lines 344-346: an id outside the cube returns an empty chunk
rs_out_of_range ==
    /\ pc = "rs_idle"
    /\ \E rid \in ChunkIds(rs_count_chunks(cube)) :
          /\ outside(rid, rs_count_chunks(cube))
          /\ id' = rid
    /\ out' = EmptyChunk
    /\ pc' = "rs_done"
    /\ UNCHANGED <<cube, i>>
    /\ UNCHANGED srcvars
    /\ UNCHANGED rsvars
    /\ UNCHANGED gvars
    /\ UNCHANGED pvars
    /\ UNCHANGED mvars
    /\ UNCHANGED xvars

\* lines 348-351: an input cube of one pixel is "already reduced" and its
\* chunk id is returned as it is; the input's read_chunk may throw
rs_passthrough ==
    /\ pc = "rs_idle"
    /\ cube.ny = 1 /\ cube.nx = 1
    /\ \E rid \in ChunkIds(rs_count_chunks(cube)) :
          /\ ~outside(rid, rs_count_chunks(cube))
          /\ id' = rid
          /\ \E raised \in BOOLEAN :
                IF raised
                THEN /\ pc' = "rs_error"
                     /\ UNCHANGED <<out, reads>>
                ELSE \E x \in InChunks(cube, Len(in_bands), rid) :
                        /\ reads' = Append(reads, [id |-> rid, chunk |-> x])
                        /\ out' = x
                        /\ pc' = "rs_done"
    /\ UNCHANGED <<cube, i, reducer_bands, in_bands, reducers>>
    /\ UNCHANGED srcvars
    /\ UNCHANGED gvars
    /\ UNCHANGED pvars
    /\ UNCHANGED mvars
    /\ UNCHANGED xvars

\* lines 353-392: allocate the result chunk, fill it with NaN, create and
\* init one reducer per pair
rs_begin ==
    /\ pc = "rs_idle"
    /\ ~(cube.ny = 1 /\ cube.nx = 1)
    /\ \E rid \in ChunkIds(rs_count_chunks(cube)) :
          LET size_tyx == rs_chunk_size(cube, rid)
              size_btyx == <<Len(reducer_bands), size_tyx[1], 1, 1>>
              a == [size |-> size_btyx, buf |-> [k \in 1..Cells(size_btyx) |-> NaN]]
              r == init_all(a, <<>>, reducer_bands, in_bands, 1)
          IN  /\ ~outside(rid, rs_count_chunks(cube))
              /\ id' = rid
              /\ out' = r.a
              /\ reducers' = r.rds
              /\ i' = first_input(cube, rid)
              /\ pc' = IF r.ok THEN "rs_combine" ELSE "rs_error"
    /\ UNCHANGED <<cube, reducer_bands, in_bands, reads>>
    /\ UNCHANGED srcvars
    /\ UNCHANGED gvars
    /\ UNCHANGED pvars
    /\ UNCHANGED mvars
    /\ UNCHANGED xvars

\* lines 395-400, one round of the loop: read input chunk i and let every
\* reducer combine it
rs_combine ==
    /\ pc = "rs_combine"
    /\ i < end_input(cube, id)
    /\ \E x \in InChunks(cube, Len(in_bands), i) :
          LET r == combine_all(out, reducers, x, 1)
          IN  /\ reads' = Append(reads, [id |-> i, chunk |-> x])
              /\ out' = r.a
              /\ reducers' = r.rds
    /\ i' = i + 1
    /\ UNCHANGED <<pc, cube, id, reducer_bands, in_bands>>
    /\ UNCHANGED srcvars
    /\ UNCHANGED gvars
    /\ UNCHANGED pvars
    /\ UNCHANGED mvars
    /\ UNCHANGED xvars

\* line 396: the input's read_chunk throws
rs_input_raises ==
    /\ pc = "rs_combine"
    /\ i < end_input(cube, id)
    /\ pc' = "rs_error"
    /\ UNCHANGED <<cube, id, out, i>>
    /\ UNCHANGED srcvars
    /\ UNCHANGED rsvars
    /\ UNCHANGED gvars
    /\ UNCHANGED pvars
    /\ UNCHANGED mvars
    /\ UNCHANGED xvars

\* lines 401-409: finalize and delete the reducers, return the chunk
rs_finalize ==
    /\ pc = "rs_combine"
    /\ i >= end_input(cube, id)
    /\ out' = finalize_all(out, reducers, 1)
    /\ reducers' = <<>>
    /\ pc' = "rs_done"
    /\ UNCHANGED <<cube, id, i, reducer_bands, in_bands, reads>>
    /\ UNCHANGED srcvars
    /\ UNCHANGED gvars
    /\ UNCHANGED pvars
    /\ UNCHANGED mvars
    /\ UNCHANGED xvars

NextRS ==
    \/ rs_out_of_range
    \/ rs_passthrough
    \/ rs_begin
    \/ rs_combine
    \/ rs_input_raises
    \/ rs_finalize

SpecRS == InitRS /\ [][NextRS]_vars

\* read_chunk on the cubes whose pairs are a single pair or mean, sum and
\* count on one band
InitRSSingle ==
    /\ InitRS
    /\ Len(reducer_bands) \in {1, 3}

SpecRSSingle == InitRSSingle /\ [][NextRS]_vars


(***************************************************************************)
(* The graph factory: make_constructible_json and create_from_json         *)
(***************************************************************************)
\* largest number of operator nodes above the source of a graph
MaxDepth == 2

\* file of the image collection and the names of its bands
CollectionFile == "collection.db"

CollectionBands == {bands[k] : k \in 1..Len(bands)}

\* cube views: size of the cube and the aggregation method
Views ==
    {[nt |-> 3, ny |-> 2, nx |-> 2, aggregation |-> "MEAN"],
     [nt |-> 1, ny |-> 1, nx |-> 1, aggregation |-> "NONE"]}

\* _chunk_size: <<t, y, x>>
ChunkSizes == {<<2, 2, 1>>, <<1, 1, 1>>}

\* _mask: null, a value_mask or a range_mask, with their members
NoMask == [kind |-> "none"]

value_mask(mask_values, invert) ==
    [kind |-> "value_mask", m_mask_values |-> mask_values, m_invert |-> invert]

range_mask(min, max, invert) ==
    [kind |-> "range_mask", m_min |-> min, m_max |-> max, m_invert |-> invert]

Masks ==
    {NoMask}
        \cup {value_mask(vs, inv) : vs \in {{D(0)}, {D(1), D(2)}}, inv \in BOOLEAN}
        \cup {range_mask(D(0), D(2), inv) : inv \in BOOLEAN}

\* _warp_args
WarpArgs == {<<>>, <<"-wm", "256">>}

\* image_collection_cube objects; set_mask sets mask and band together, and
\* only to a band of the collection
Sources ==
    {n \in [cube_type : {"image_collection"}, file : {CollectionFile},
            temporary : BOOLEAN, chunk_size : ChunkSizes, view : Views,
            mask : Masks, mask_band : {""} \cup CollectionBands,
            warp_args : WarpArgs] :
        (n.mask = NoMask) <=> (n.mask_band = "")}

\* the operator cubes over the cube n
Wrap(n) ==
    {[cube_type |-> "reduce", reducer |-> r, in_cube |-> n] : r \in {"mean", "median"}}
        \cup {[cube_type |-> t, reducer_bands |-> <<<<"max", "B04">>>>, in_cube |-> n] :
                 t \in {"reduce_time", "reduce_space"}}

\* the graphs with at most d operator nodes
RECURSIVE Graphs(_)
Graphs(d) ==
    IF d = 0 THEN Sources
    ELSE Graphs(d - 1) \cup UNION {Wrap(n) : n \in Graphs(d - 1)}

\* a thrown exception
Thrown(what) == [cube_type |-> "error", what |-> what]

IsThrown(x) == x.cube_type = "error"

\* cube_view::write_json_string and cube_view::read_json_string
write_json_string(v) ==
    [aggregation |-> v.aggregation, space |-> <<v.nx, v.ny>>, time |-> <<v.nt>>]

read_json_string(vj) ==
    [nt |-> vj.time[1], ny |-> vj.space[2], nx |-> vj.space[1],
     aggregation |-> vj.aggregation]

\* value_mask::as_json and range_mask::as_json
as_json(m) ==
    IF m.kind = "value_mask"
    THEN [mask_type |-> "value_mask", values |-> m.m_mask_values,
          invert |-> m.m_invert]
    ELSE [mask_type |-> "range_mask", min |-> m.m_min, max |-> m.m_max,
          invert |-> m.m_invert]

\* make_constructible_json of image_collection_cube, reduce_cube,
\* reduce_time_cube and reduce_space_cube
RECURSIVE make_constructible_json(_)
make_constructible_json(n) ==
    IF n.cube_type = "image_collection"
    THEN IF n.temporary THEN Thrown("image collection is temporary")
         ELSE LET o == [cube_type |-> "image_collection", chunk_size |-> n.chunk_size,
                        view |-> write_json_string(n.view), file |-> n.file,
                        warp_args |-> n.warp_args]
              IN  IF n.mask # NoMask
                  THEN o @@ ("mask" :> as_json(n.mask)) @@ ("mask_band" :> n.mask_band)
                  ELSE o
    ELSE LET inj == make_constructible_json(n.in_cube)
         IN  IF IsThrown(inj) THEN inj
             ELSE IF n.cube_type = "reduce"
             THEN [cube_type |-> "reduce", reducer |-> n.reducer, in_cube |-> inj]
             ELSE [cube_type |-> n.cube_type, reducer_bands |-> n.reducer_bands,
                   in_cube |-> inj]

\* image_collection_cube::set_mask
set_mask(x, band, m) ==
    IF band \in CollectionBands THEN [x EXCEPT !.mask = m, !.mask_band = band]
    ELSE x

\* the generator registered for "image_collection"; the mask band is looked
\* up inside j["mask"], where a missing key yields null, whose conversion to
\* a string throws
image_collection_generator(j, files) ==
    IF "file" \notin DOMAIN j THEN Thrown("type must be string, but is null")
    ELSE IF j.file \notin files THEN Thrown("image collection file does not exist")
    ELSE LET x == [cube_type |-> "image_collection", file |-> j.file,
                   temporary |-> FALSE, chunk_size |-> j.chunk_size,
                   view |-> read_json_string(j.view), mask |-> NoMask,
                   mask_band |-> "", warp_args |-> <<>>]
             warped(y) == IF "warp_args" \in DOMAIN j
                          THEN [y EXCEPT !.warp_args = j.warp_args] ELSE y
         IN  IF "mask" \notin DOMAIN j THEN warped(x)
             ELSE IF "mask_type" \notin DOMAIN j.mask THEN warped(x)
             ELSE IF j.mask.mask_type \notin {"value_mask", "range_mask"} THEN warped(x)
             ELSE IF "mask_band" \notin DOMAIN j.mask THEN Thrown("type must be string, but is null")
             ELSE IF j.mask.mask_type = "value_mask"
             THEN warped(set_mask(x, j.mask.mask_band,
                                  value_mask(j.mask.values, j.mask.invert)))
             ELSE warped(set_mask(x, j.mask.mask_band,
                                  range_mask(j.mask.min, j.mask.max, j.mask.invert)))

\* the cube_type a generator registered under the name type_name builds for
\* an operator over one input cube
reduce_space_generator_class == "reduce_time"

\* the discriminators register_default registers a generator for, as far as
\* the graphs of the model need them
RegisteredTypes == {"image_collection", "reduce", "reduce_time", "reduce_space"}

\* a lookup that hands out the generator of image_collection for a name
\* that is not registered
cube_generators_fallback(cube_type) ==
    IF cube_type \in RegisteredTypes THEN cube_type ELSE "image_collection"

\* cube_generators[cube_type]: the generator registered under the name, or
\* the empty std::function that operator[] inserts for a new key
cube_generators(cube_type) ==
    IF cube_type \in RegisteredTypes THEN cube_type ELSE "empty"

\* cube_factory::create_from_json with the generators of register_default;
\* calling an empty std::function throws std::bad_function_call
RECURSIVE create_from_json(_, _)
create_from_json(j, files) ==
    IF "cube_type" \notin DOMAIN j THEN Thrown("missing cube_type key")
    ELSE IF cube_generators(j.cube_type) = "empty" THEN Thrown("bad_function_call")
    ELSE IF cube_generators(j.cube_type) = "image_collection"
    THEN image_collection_generator(j, files)
    ELSE IF cube_generators(j.cube_type) \in {"reduce", "reduce_time", "reduce_space"}
    THEN LET in == create_from_json(j.in_cube, files)
         IN  IF IsThrown(in) THEN in
             ELSE IF j.cube_type = "reduce"
             THEN (IF j.reducer \in ReducerNames
                   THEN [cube_type |-> "reduce", reducer |-> j.reducer, in_cube |-> in]
                   ELSE Thrown("Unknown reducer given"))
             ELSE IF j.cube_type = "reduce_time"
             THEN [cube_type |-> "reduce_time", reducer_bands |-> j.reducer_bands,
                   in_cube |-> in]
             ELSE [cube_type |-> reduce_space_generator_class,
                   reducer_bands |-> j.reducer_bands, in_cube |-> in]
    ELSE Thrown("bad_function_call")

\* size of the cube of node n: the view's for a source; reduce and
\* reduce_time collapse time, reduce_space collapses space
RECURSIVE geometry(_)
geometry(n) ==
    IF n.cube_type = "image_collection"
    THEN [nt |-> n.view.nt, ny |-> n.view.ny, nx |-> n.view.nx]
    ELSE IF n.cube_type = "reduce_space"
    THEN [nt |-> geometry(n.in_cube).nt, ny |-> 1, nx |-> 1]
    ELSE [nt |-> 1, ny |-> geometry(n.in_cube).ny, nx |-> geometry(n.in_cube).nx]

InitGraph ==
    /\ pc = "g_idle"
    /\ cube = SrcCube
    /\ method = "NONE"
    /\ reducer_bands = <<>>
    /\ in_bands = <<>>
    /\ id = 0
    /\ out = EmptyChunk
    /\ datasets = <<>>
    /\ i = 0
    /\ band_rels = <<>>
    /\ b = 0
    /\ it = 0
    /\ img_count = NoMap
    /\ val_count = NoMap
    /\ queried = 0
    /\ fed = <<>>
    /\ warp_ok = TRUE
    /\ reducers = <<>>
    /\ reads = <<>>
    /\ graph \in Graphs(MaxDepth)
    /\ json = NoNode
    /\ rebuilt = NoNode
    /\ fs \in {{}, {CollectionFile}}
    /\ calls = <<>>
    /\ tmpfiles = <<>>
    /\ mask = [kind |-> "none"]
    /\ mask_buf = <<>>
    /\ pixel_buf = <<>>
    /\ masked = <<>>
    /\ IdleX

\* graph->make_constructible_json()
g_make_json ==
    /\ pc = "g_idle"
    /\ json' = make_constructible_json(graph)
    /\ pc' = IF IsThrown(json') THEN "g_error" ELSE "g_json"
    /\ UNCHANGED <<cube, id, out, i, graph, rebuilt, fs>>
    /\ UNCHANGED srcvars
    /\ UNCHANGED rsvars
    /\ UNCHANGED pvars
    /\ UNCHANGED mvars
    /\ UNCHANGED xvars

\* cube_factory::instance()->create_from_json(json)
g_create_from_json ==
    /\ pc = "g_json"
    /\ rebuilt' = create_from_json(json, fs)
    /\ pc' = IF IsThrown(rebuilt') THEN "g_error" ELSE "g_built"
    /\ UNCHANGED <<cube, id, out, i, graph, json, fs>>
    /\ UNCHANGED srcvars
    /\ UNCHANGED rsvars
    /\ UNCHANGED pvars
    /\ UNCHANGED mvars
    /\ UNCHANGED xvars

\* a description with the cube_type key of node j removed, or set to a name
\* no generator is registered for
without_type(j) == [k \in DOMAIN j \ {"cube_type"} |-> j[k]]

unknown_type(j) == [j EXCEPT !.cube_type = "no_such_cube"]

\* the descriptions that differ from j in the cube_type of one node
RECURSIVE Broken(_)
Broken(j) ==
    {without_type(j), unknown_type(j)}
        \cup (IF "in_cube" \in DOMAIN j
              THEN {[j EXCEPT !.in_cube = c] : c \in Broken(j.in_cube)}
              ELSE {})

\* the descriptions a caller hands to the factory for the graph g: what g
\* serializes to, and that with the cube_type of one node spoilt
Descriptions(g) ==
    LET j == make_constructible_json(g)
    IN  IF IsThrown(j) THEN {} ELSE {j} \cup Broken(j)

\* cube_factory::instance()->create_from_json(j) for a description j
g_create_from_description ==
    /\ pc = "g_idle"
    /\ \E j \in Descriptions(graph) :
          /\ json' = j
          /\ rebuilt' = create_from_json(j, fs)
    /\ pc' = IF IsThrown(rebuilt') THEN "g_desc_error" ELSE "g_desc_built"
    /\ UNCHANGED <<cube, id, out, i, graph, fs>>
    /\ UNCHANGED srcvars
    /\ UNCHANGED rsvars
    /\ UNCHANGED pvars
    /\ UNCHANGED mvars
    /\ UNCHANGED xvars

NextGraph ==
    \/ g_make_json
    \/ g_create_from_json
    \/ g_create_from_description

SpecGraph == InitGraph /\ [][NextGraph]_vars


(***************************************************************************)
(* Concurrent calls of default_chunking::read                              *)
(***************************************************************************)
\* the threads of the chunk processor that run read at the same time
Calls == {1, 2}

\* the warped plane (one pixel) of each descriptor of a call, in catalog
\* order; every descriptor has one band
Rasters == UNION {[1..n -> {D(1), D(3)}] : n \in 1..MaxDesc}

\* (std::to_string(i) + ".tif"): the temporary file of the descriptor whose
\* rows end at row index i, in the working directory of the process
tif_name(row) == row

\* line 340, gtiff_driver->Create: the file is created anew, all zero
Create(files, name) == [files EXCEPT ![name] = D(0)]

\* line 350, GDALWarp writes the warped plane to the dataset
GDALWarp(files, name, plane) == [files EXCEPT ![name] = plane]

\* lines 373-375, RasterIO on the call's dataset: the blocks this call wrote
\* if they are still cached, otherwise what the file holds now
RasterIOFile(files, name, own) == {own, files[name]}

InitPar ==
    /\ pc = "par"
    /\ cube = SrcCube
    /\ method = "NONE"
    /\ reducer_bands = <<>>
    /\ in_bands = <<>>
    /\ id = 0
    /\ out = EmptyChunk
    /\ datasets = <<>>
    /\ i = 0
    /\ band_rels = <<>>
    /\ b = 0
    /\ it = 0
    /\ img_count = NoMap
    /\ val_count = NoMap
    /\ queried = 0
    /\ fed = <<>>
    /\ warp_ok = TRUE
    /\ reducers = <<>>
    /\ reads = <<>>
    /\ graph = NoNode
    /\ json = NoNode
    /\ rebuilt = NoNode
    /\ fs = {}
    /\ calls \in {cs \in [Calls -> [pc : {"create"}, id : 0..(count_chunks(SrcCube) - 1),
                                  rasters : Rasters, i : {1}, got : {<<>>}]] :
                     \A c, d \in Calls : c # d => cs[c].id # cs[d].id}
    /\ tmpfiles = [name \in 1..MaxDesc |-> NaN]
    /\ mask = [kind |-> "none"]
    /\ mask_buf = <<>>
    /\ pixel_buf = <<>>
    /\ masked = <<>>
    /\ IdleX

UnchangedButPar ==
    /\ UNCHANGED <<pc, cube, id, out, i>>
    /\ UNCHANGED srcvars
    /\ UNCHANGED rsvars
    /\ UNCHANGED gvars
    /\ UNCHANGED mvars
    /\ UNCHANGED xvars

\* line 340: call c creates the temporary file of its current descriptor
par_create(c) ==
    /\ pc = "par"
    /\ calls[c].pc = "create"
    /\ tmpfiles' = Create(tmpfiles, tif_name(calls[c].i))
    /\ calls' = [calls EXCEPT ![c].pc = "warp"]
    /\ UnchangedButPar

\* line 350: call c warps the raster of its descriptor into the file
par_warp(c) ==
    /\ pc = "par"
    /\ calls[c].pc = "warp"
    /\ tmpfiles' = GDALWarp(tmpfiles, tif_name(calls[c].i), calls[c].rasters[calls[c].i])
    /\ calls' = [calls EXCEPT ![c].pc = "read"]
    /\ UnchangedButPar

\* lines 368-382: call c reads the band plane of its descriptor
par_read(c) ==
    /\ pc = "par"
    /\ calls[c].pc = "read"
    /\ \E plane \in RasterIOFile(tmpfiles, tif_name(calls[c].i),
                                 calls[c].rasters[calls[c].i]) :
          calls' = [calls EXCEPT ![c].got = Append(@, plane), ![c].pc = "close"]
    /\ UNCHANGED tmpfiles
    /\ UnchangedButPar

\* line 384, GDALClose(gdal_out), and the next round of the loop
par_close(c) ==
    /\ pc = "par"
    /\ calls[c].pc = "close"
    /\ calls' = [calls EXCEPT ![c].i = @ + 1,
                              ![c].pc = IF calls[c].i < Len(calls[c].rasters)
                                        THEN "create" ELSE "done"]
    /\ UNCHANGED tmpfiles
    /\ UnchangedButPar

NextPar ==
    \E c \in Calls :
        \/ par_create(c)
        \/ par_warp(c)
        \/ par_read(c)
        \/ par_close(c)

SpecPar == InitPar /\ [][NextPar]_vars


(***************************************************************************)
(* Image masks: value_mask::apply and range_mask::apply                    *)
(***************************************************************************)
\* the masks apply is called on: those of the graphs, and a value mask
\* whose set holds NaN
MaskObjects ==
    (Masks \ {NoMask}) \cup {value_mask({NaN, D(1)}, inv) : inv \in BOOLEAN}

\* number of bands and of pixels (ny * nx) of the image
MaskedBands == 2

MaskedPixels == 2

\* std::unordered_set<double>::count(v): elements equal to v; NaN equals
\* nothing
count(mask_values, v) == IF ~isnan(v) /\ v \in mask_values THEN 1 ELSE 0

\* a <= b on doubles: false when either is NaN
dleq(a, c) == ~isnan(a) /\ ~isnan(c) /\ ~dless(c, a)

\* value_mask::apply: the pixels at which the bands are set to NaN
value_mask_fires(m, v) ==
    IF ~m.m_invert THEN count(m.m_mask_values, v) = 1
    ELSE count(m.m_mask_values, v) = 0

\* range_mask::apply: the pixels at which the bands are set to NaN
range_mask_fires(m, v) ==
    IF ~m.m_invert THEN dleq(m.m_min, v) /\ dleq(v, m.m_max)
    ELSE dless(v, m.m_min) \/ dless(m.m_max, v)

\* apply(mask_buf, pixel_buf, nb, ny, nx) of the mask m: pixel_buf after it
apply(m, mbuf, pbuf, nb, nyx) ==
    [k \in 1..(nb * nyx) |->
        LET ixy == (k - 1) % nyx
            fires == IF m.kind = "value_mask"
                     THEN value_mask_fires(m, mbuf[ixy + 1])
                     ELSE range_mask_fires(m, mbuf[ixy + 1])
        IN  IF fires THEN NaN ELSE pbuf[k]]

InitMask ==
    /\ pc = "m_idle"
    /\ cube = SrcCube
    /\ method = "NONE"
    /\ reducer_bands = <<>>
    /\ in_bands = <<>>
    /\ id = 0
    /\ out = EmptyChunk
    /\ datasets = <<>>
    /\ i = 0
    /\ band_rels = <<>>
    /\ b = 0
    /\ it = 0
    /\ img_count = NoMap
    /\ val_count = NoMap
    /\ queried = 0
    /\ fed = <<>>
    /\ warp_ok = TRUE
    /\ reducers = <<>>
    /\ reads = <<>>
    /\ graph = NoNode
    /\ json = NoNode
    /\ rebuilt = NoNode
    /\ fs = {}
    /\ calls = <<>>
    /\ tmpfiles = <<>>
    /\ mask \in MaskObjects
    /\ mask_buf \in [1..MaskedPixels -> {NaN, D(0), D(1), D(3)}]
    /\ pixel_buf \in [1..(MaskedBands * MaskedPixels) -> {NaN, D(5)}]
    /\ masked = <<>>
    /\ IdleX

\* _mask->apply(mask_buf, pixel_buf, nb, ny, nx)
mask_apply ==
    /\ pc = "m_idle"
    /\ masked' = apply(mask, mask_buf, pixel_buf, MaskedBands, MaskedPixels)
    /\ pc' = "m_done"
    /\ UNCHANGED <<cube, id, out, i, mask, mask_buf, pixel_buf>>
    /\ UNCHANGED srcvars
    /\ UNCHANGED rsvars
    /\ UNCHANGED gvars
    /\ UNCHANGED pvars
    /\ UNCHANGED xvars

NextMask == mask_apply

SpecMask == InitMask /\ [][NextMask]_vars


(***************************************************************************)
(* Construction of reduce_cube objects over an image collection cube       *)
(***************************************************************************)
\* largest number of cube objects
MaxCubes == 3

\* spatiotemporal references: datetimes and durations in units of the step
\* of the collection; the last has one time step and t1 after t0
StRefs ==
    {[t0 |-> 0, t1 |-> 2, dt |-> 1, win |-> "win_a", proj |-> "EPSG:4326", ny |-> 2, nx |-> 2],
     [t0 |-> 1, t1 |-> 1, dt |-> 1, win |-> "win_b", proj |-> "EPSG:3857", ny |-> 2, nx |-> 1],
     [t0 |-> 0, t1 |-> 1, dt |-> 2, win |-> "win_a", proj |-> "EPSG:4326", ny |-> 1, nx |-> 2]}

\* cube_st_reference::nt: the number of steps of dt in [t0, t1], t0 included
nt(st) == IF st.t1 = st.t0 THEN 1 ELSE ((st.t1 - st.t0) \div st.dt) + 1

\* cube::size_t
size_t(c) == nt(c.st_ref)

\* the reducer names create is called with; the last is no reducer
CreateReducers == {"mean", "median", "mode"}

\* the test at the end of the constructor that passes every name
known_reducer_any(reducer) == TRUE

\* the test at the end of the constructor of reduce_cube
known_reducer(reducer) ==
    reducer \in {"min", "max", "mean", "median", "count", "var", "sd", "prod", "sum"}

\* the image collection cubes: band names are lists of the parts that "_"
\* joins
ConsSources ==
    [cube_type : {"image_collection"}, st_ref : StRefs, chunk_size : ChunkSizes,
     bands : {<<<<"B04">>, <<"B08">>>>}, children : {<<>>}, parents : {<<>>}]

\* the constructor of reduce_cube over the cube in, without its last test,
\* that appends the reducer to the band names of every input
reduce_cube_always_suffix(in, k, reducer) ==
    [cube_type |-> "reduce", in_cube |-> k, reducer |-> reducer,
     st_ref |-> [in.st_ref EXCEPT !.dt = in.st_ref.t1 - in.st_ref.t0,
                                  !.t1 = in.st_ref.t0],
     chunk_size |-> <<1, in.chunk_size[2], in.chunk_size[3]>>,
     bands |-> [ib \in 1..Len(in.bands) |-> Append(in.bands[ib], reducer)],
     children |-> <<>>, parents |-> <<>>]

\* the constructor of reduce_cube over the cube in, without its last test,
\* that forgets the chunk sizes of the input
reduce_cube_unit_chunks(in, k, reducer) ==
    [cube_type |-> "reduce", in_cube |-> k, reducer |-> reducer,
     st_ref |-> [in.st_ref EXCEPT !.dt = in.st_ref.t1 - in.st_ref.t0,
                                  !.t1 = in.st_ref.t0],
     chunk_size |-> <<1, 1, 1>>,
     bands |-> [ib \in 1..Len(in.bands) |->
                   IF size_t(in) > 1 THEN Append(in.bands[ib], reducer)
                   ELSE in.bands[ib]],
     children |-> <<>>, parents |-> <<>>]

\* the constructor of reduce_cube over the cube in, the k-th object, without
\* its last test
reduce_cube(in, k, reducer) ==
    [cube_type |-> "reduce", in_cube |-> k, reducer |-> reducer,
     st_ref |-> [in.st_ref EXCEPT !.dt = in.st_ref.t1 - in.st_ref.t0,
                                  !.t1 = in.st_ref.t0],
     chunk_size |-> <<1, in.chunk_size[2], in.chunk_size[3]>>,
     bands |-> [ib \in 1..Len(in.bands) |->
                   IF size_t(in) > 1 THEN Append(in.bands[ib], reducer)
                   ELSE in.bands[ib]],
     children |-> <<>>, parents |-> <<>>]

\* reduce_cube::set_st_reference
set_st_reference(c, stref) ==
    [c EXCEPT !.st_ref = [stref EXCEPT !.dt = stref.t1 - stref.t0, !.t1 = stref.t0]]

InitCons ==
    /\ pc = "cons"
    /\ cube = SrcCube
    /\ method = "NONE"
    /\ reducer_bands = <<>>
    /\ in_bands = <<>>
    /\ InitBase
    /\ cubes \in {<<src>> : src \in ConsSources}
    /\ call = NoCall
    /\ IdleQuery
    /\ IdleConfig

UnchangedButCons ==
    /\ UNCHANGED <<pc, cube, id, out, i>>
    /\ UNCHANGED srcvars
    /\ UNCHANGED rsvars
    /\ UNCHANGED gvars
    /\ UNCHANGED pvars
    /\ UNCHANGED mvars
    /\ UNCHANGED qvars
    /\ UNCHANGED ivars

\* reduce_cube::create(in, reducer): the constructor throws for an unknown
\* reducer; otherwise the new cube is linked to its input
cons_create ==
    /\ pc = "cons"
    /\ Len(cubes) < MaxCubes
    /\ \E k \in 1..Len(cubes), reducer \in CreateReducers :
          IF known_reducer(reducer)
          THEN LET made == reduce_cube(cubes[k], k, reducer)
                   new == Len(cubes) + 1
               IN  /\ cubes' = Append([cubes EXCEPT ![k].children = Append(@, new)],
                                      [made EXCEPT !.parents = <<k>>])
                   /\ call' = [op |-> "create", in |-> k, reducer |-> reducer,
                               thrown |-> FALSE, returned |-> new]
          ELSE /\ cubes' = cubes
               /\ call' = [op |-> "create", in |-> k, reducer |-> reducer,
                           thrown |-> TRUE, returned |-> 0]
    /\ UnchangedButCons

\* image_collection_cube::set_chunk_size(t, y, x)
cons_set_chunk_size ==
    /\ pc = "cons"
    /\ \E k \in 1..Len(cubes), cs \in ChunkSizes :
          /\ cubes[k].cube_type = "image_collection"
          /\ cubes' = [cubes EXCEPT ![k].chunk_size = cs]
          /\ call' = [op |-> "set_chunk_size", in |-> k, chunk_size |-> cs]
    /\ UnchangedButCons

\* reduce_cube::set_st_reference(stref)
cons_set_st_reference ==
    /\ pc = "cons"
    /\ \E k \in 1..Len(cubes), stref \in StRefs :
          /\ cubes[k].cube_type = "reduce"
          /\ cubes' = [cubes EXCEPT ![k] = set_st_reference(@, stref)]
          /\ call' = [op |-> "set_st_reference", in |-> k, stref |-> stref]
    /\ UnchangedButCons

NextCons ==
    \/ cons_create
    \/ cons_set_chunk_size
    \/ cons_set_st_reference

SpecCons == InitCons /\ [][NextCons]_vars

\* the cubes, the factory, the concurrent reads, the masks and the
\* construction of cubes
(***************************************************************************)
(* Point queries: vector_queries::query_points                             *)
(***************************************************************************)
\* largest number of query points
MaxPoints == 2

\* (int)std::floor(v) of a finite double v
floor(v) == v[1] \div v[2]

\* a % n of two ints, n > 0: the sign follows a
c_mod(a, n) == IF a >= 0 THEN a % n ELSE -((-a) % n)

\* a / n of two ints, n > 0: truncated towards zero
c_div(a, n) == IF a >= 0 THEN a \div n ELSE -((-a) \div n)

\* the queried cubes: a row of tiles with a cut last row, and a single
\* chunk of two time steps
QTiles == [nt |-> 1, cs_t |-> 1, ny |-> 3, cs_y |-> 2, nx |-> 2, cs_x |-> 1, nb |-> 2,
           left |-> D(1), dx |-> D(2), bottom |-> D(0), dy |-> D(1), t0 |-> 1, dt |-> 1]

QSeries == [nt |-> 2, cs_t |-> 2, ny |-> 1, cs_y |-> 1, nx |-> 1, cs_x |-> 1, nb |-> 1,
            left |-> D(1), dx |-> D(2), bottom |-> D(0), dy |-> D(1), t0 |-> 1, dt |-> 1]

QCubes == {QTiles, QSeries}

\* the query points: x left of the cube, in its first and in its second
\* column; y in the rows 0 and 2 and above the cube; t at both time steps
QPoints ==
    {[x |-> px, y |-> py, t |-> pt] :
        px \in {D(0), D(1), <<7, 2>>}, py \in {<<1, 2>>, <<5, 2>>, D(3)}, pt \in {1, 2}}

\* what read_chunk of the queried cube returns for a chunk: an empty chunk,
\* a chunk of chunk_size(id), or a chunk of one cell per band
ChunkKinds == {"empty", "full", "cell"}

\* cube->read_chunk(cid), line 89; the cell at offset k holds cid * 100 + k
q_read_chunk_data(g, kinds, cid) ==
    IF kinds[cid] = "empty" THEN EmptyChunk
    ELSE LET s == IF kinds[cid] = "full" THEN chunk_size(g, cid) ELSE <<1, 1, 1>>
             size_btyx == <<g.nb, s[1], s[2], s[3]>>
         IN  [size |-> size_btyx,
              buf |-> [k \in 1..(g.nb * s[1] * s[2] * s[3]) |-> D(cid * 100 + (k - 1))]]

\* line 53
ix(g, p) == ddiv(dsub(p.x, g.left), g.dx)

\* line 55
iy(g, p) == ddiv(dsub(p.y, g.bottom), g.dy)

\* lines 57-65: the time of the point in steps of the cube
it_of(g, p) == c_div(p.t - g.t0, g.dt)

\* cube->find_chunk_that_contains(st): floors into the tile grid; a point
\* outside the cube gets an id outside the valid range
find_chunk_that_contains(g, p) ==
    LET cx == floor(ix(g, p))
        cy == floor(iy(g, p))
        ct == it_of(g, p)
    IN  IF cx < 0 \/ cx >= g.nx \/ cy < 0 \/ cy >= g.ny \/ ct < 0 \/ ct >= g.nt
        THEN count_chunks(g)
        ELSE (ct \div g.cs_t) * count_chunks_y(g) * count_chunks_x(g)
                 + (cy \div g.cs_y) * count_chunks_x(g) + (cx \div g.cs_x)

\* lines 51-73: chunk_index after the first k points; point indexes are
\* 0-based and pushed in point order
RECURSIVE index_points(_, _, _)
index_points(g, ps, k) ==
    IF k = 0 THEN NoMap
    ELSE LET m == index_points(g, ps, k - 1)
             c == find_chunk_that_contains(g, ps[k])
         IN  [e \in DOMAIN m \cup {c} |->
                 IF e = c THEN (IF c \in DOMAIN m THEN Append(m[c], k - 1) ELSE <<k - 1>>)
                 ELSE m[e]]

\* the keys of a std::map in iteration order
RECURSIVE keys_in_order(_)
keys_in_order(S) ==
    IF S = {} THEN <<>>
    ELSE LET least == CHOOSE e \in S : \A f \in S : e <= f
         IN  <<least>> \o keys_in_order(S \ {least})

\* the column written for entry k of a group
column_by_position(grp, k) == k - 1

\* line 109: iter->second[i], the column written for entry k of a group
column(grp, k) == grp[k]

\* lines 94-111: the values of the points grp of one chunk, from entry k on
RECURSIVE extract(_, _, _, _, _, _)
extract(g, ps, m, dat, grp, k) ==
    IF k > Len(grp) THEN m
    ELSE LET p == ps[grp[k] + 1]
             iix == c_mod(floor(ix(g, p)), g.cs_x)
             iiy == dat.size[3] - 1 - c_mod(floor(iy(g, p)), g.cs_y)
             iit == c_mod(it_of(g, p), g.cs_t)
             skip == \/ iix < 0 \/ iix >= dat.size[4]
                     \/ iiy < 0 \/ iiy >= dat.size[3]
                     \/ iit < 0 \/ iit >= dat.size[2]
             filled == [ib \in 1..Len(m) |->
                           SetAt(m[ib], column(grp, k),
                                 dat.buf[(ib - 1) * dat.size[2] * dat.size[3] * dat.size[4]
                                         + iit * dat.size[3] * dat.size[4]
                                         + iiy * dat.size[4] + iix + 1])]
         IN  extract(g, ps, IF skip THEN m ELSE filled, dat, grp, k + 1)

InitQuery ==
    /\ pc = "q_idle"
    /\ cube \in QCubes
    /\ method = "NONE"
    /\ reducer_bands = <<>>
    /\ in_bands = <<>>
    /\ InitBase
    /\ IdleCons
    /\ IdleConfig
    /\ points \in UNION {[1..n -> QPoints] : n \in 1..MaxPoints}
    /\ dats \in [0..(count_chunks(cube) - 1) -> ChunkKinds]
    /\ chunk_index = NoMap
    /\ iter = <<>>
    /\ matrix = <<>>
    /\ read_ids = <<>>

UnchangedButQuery ==
    /\ UNCHANGED <<cube, id, out, i>>
    /\ UNCHANGED srcvars
    /\ UNCHANGED rsvars
    /\ UNCHANGED gvars
    /\ UNCHANGED pvars
    /\ UNCHANGED mvars
    /\ UNCHANGED cvars
    /\ UNCHANGED ivars

\* lines 44-79: the array coordinates and the chunk of every point, then a
\* matrix of NaN
q_index ==
    /\ pc = "q_idle"
    /\ chunk_index' = index_points(cube, points, Len(points))
    /\ iter' = keys_in_order(DOMAIN chunk_index')
    /\ matrix' = [ib \in 1..cube.nb |-> [k \in 1..Len(points) |-> NaN]]
    /\ pc' = "q_read"
    /\ UNCHANGED <<points, dats, read_ids>>
    /\ UnchangedButQuery

\* lines 85-87: a chunk id outside the cube is skipped
q_skip ==
    /\ pc = "q_read"
    /\ iter # <<>>
    /\ Head(iter) >= count_chunks(cube)
    /\ iter' = Tail(iter)
    /\ UNCHANGED <<pc, points, dats, chunk_index, matrix, read_ids>>
    /\ UnchangedButQuery

\* lines 89-111: read the chunk and take the values of its points
q_read ==
    /\ pc = "q_read"
    /\ iter # <<>>
    /\ ~(Head(iter) >= count_chunks(cube))
    /\ LET dat == q_read_chunk_data(cube, dats, Head(iter))
       IN  matrix' = IF dat = EmptyChunk THEN matrix
                     ELSE extract(cube, points, matrix, dat, chunk_index[Head(iter)], 1)
    /\ read_ids' = Append(read_ids, Head(iter))
    /\ iter' = Tail(iter)
    /\ UNCHANGED <<pc, points, dats, chunk_index>>
    /\ UnchangedButQuery

\* line 113
q_return ==
    /\ pc = "q_read"
    /\ iter = <<>>
    /\ pc' = "q_done"
    /\ UNCHANGED <<points, dats, chunk_index, iter, matrix, read_ids>>
    /\ UnchangedButQuery

NextQuery ==
    \/ q_index
    \/ q_skip
    \/ q_read
    \/ q_return

SpecQuery == InitQuery /\ [][NextQuery]_vars

(***************************************************************************)
(* The configuration singleton: config::instance                           *)
(***************************************************************************)
\* number of threads that call config::instance()
MaxThreads == 3

\* largest number of calls of one thread
MaxCalls == 2

InitConfig ==
    /\ pc = "config"
    /\ cube = SrcCube
    /\ method = "NONE"
    /\ reducer_bands = <<>>
    /\ in_bands = <<>>
    /\ InitBase
    /\ IdleCons
    /\ IdleQuery
    /\ config_instance = 0
    /\ configs = 0
    /\ callers = [th \in 1..MaxThreads |-> [at |-> "test", got |-> <<>>]]

UnchangedButConfig ==
    /\ UNCHANGED <<pc, cube, id, out, i>>
    /\ UNCHANGED srcvars
    /\ UNCHANGED rsvars
    /\ UNCHANGED gvars
    /\ UNCHANGED pvars
    /\ UNCHANGED mvars
    /\ UNCHANGED cvars
    /\ UNCHANGED qvars

\* line 35: if (!_instance), read without a lock
instance_test(th) ==
    /\ pc = "config"
    /\ callers[th].at = "test"
    /\ callers' = [callers EXCEPT ![th].at = IF config_instance = 0 THEN "new" ELSE "return"]
    /\ UNCHANGED <<config_instance, configs>>
    /\ UnchangedButConfig

\* line 36: _instance = new config()
instance_new(th) ==
    /\ pc = "config"
    /\ callers[th].at = "new"
    /\ configs' = configs + 1
    /\ config_instance' = configs + 1
    /\ callers' = [callers EXCEPT ![th].at = "return"]
    /\ UnchangedButConfig

\* line 38: return _instance
instance_return(th) ==
    /\ pc = "config"
    /\ callers[th].at = "return"
    /\ callers' = [callers EXCEPT ![th].at = "done", ![th].got = Append(@, config_instance)]
    /\ UNCHANGED <<config_instance, configs>>
    /\ UnchangedButConfig

\* the thread calls config::instance() again
instance_again(th) ==
    /\ pc = "config"
    /\ callers[th].at = "done"
    /\ Len(callers[th].got) < MaxCalls
    /\ callers' = [callers EXCEPT ![th].at = "test"]
    /\ UNCHANGED <<config_instance, configs>>
    /\ UnchangedButConfig

NextConfig ==
    \/ \E th \in 1..MaxThreads : instance_test(th)
    \/ \E th \in 1..MaxThreads : instance_new(th)
    \/ \E th \in 1..MaxThreads : instance_return(th)
    \/ \E th \in 1..MaxThreads : instance_again(th)

SpecConfig == InitConfig /\ [][NextConfig]_vars

Init ==
    \/ InitSrc \/ InitRS \/ InitGraph \/ InitPar \/ InitMask \/ InitCons \/ InitQuery
    \/ InitConfig

Next ==
    \/ NextSrc \/ NextRS \/ NextGraph \/ NextPar \/ NextMask \/ NextCons \/ NextQuery
    \/ NextConfig

Spec == Init /\ [][Next]_vars


(***************************************************************************)
(* Properties of the image-collection source                               *)
(***************************************************************************)
\* cell (plane, t, p) of a chunk: plane and t are 0-based, p is 1-based
Cell(o, plane, t, p) ==
    o.buf[plane * o.size[2] * o.size[3] * o.size[4] + t * o.size[3] * o.size[4] + p]

Planes(o) == 0..(o.size[1] - 1)

Slots(o) == 0..(o.size[2] - 1)

Pixels(o) == 1..(o.size[3] * o.size[4])

\* the planes read so far of the images that map to band plane and slot t,
\* in the order they were read
Mapped(plane, t) == SelectSeq(fed, LAMBDA e : e.band_num - 1 = plane /\ e.t = t)

\* the non-NaN values those images contributed to pixel p
Contributed(plane, t, p) ==
    LET m == Mapped(plane, t)
    IN  SelectSeq([k \in 1..Len(m) |-> m[k].img[p]], LAMBDA v : ~isnan(v))

RECURSIVE SumSeq(_)
SumSeq(q) == IF q = <<>> THEN D(0) ELSE dadd(Head(q), SumSeq(Tail(q)))

ArithMean(q) == IF q = <<>> THEN NaN ELSE ddiv(SumSeq(q), D(Len(q)))

\* the least / greatest element of a non-empty sequence of non-NaN doubles
MinOf(q) == CHOOSE v \in {q[k] : k \in 1..Len(q)} : \A k \in 1..Len(q) : ~dless(q[k], v)

MaxOf(q) == CHOOSE v \in {q[k] : k \in 1..Len(q)} : \A k \in 1..Len(q) : ~dless(v, q[k])

Returned == pc = "done" /\ out # EmptyChunk

\* C1: under mean aggregation, once all images of the chunk are consumed,
\* every pixel of a slot (b,t) that images map to holds the arithmetic mean
\* of the non-NaN values those images contributed to it, NaN if none did
C1_MeanIsArithmeticMean ==
    (Returned /\ method = "MEAN") =>
        \A plane \in Planes(out), t \in Slots(out), p \in Pixels(out) :
            Mapped(plane, t) # <<>> =>
                Cell(out, plane, t, p) = ArithMean(Contributed(plane, t, p))

\* C2: under min (max) aggregation every pixel of every slot of a returned
\* chunk is the minimum (maximum) of the non-NaN values contributed to it,
\* and NaN when there is none, slots no image maps to included
C2_MinMaxOfContributed ==
    (Returned /\ method \in {"MIN", "MAX"}) =>
        \A plane \in Planes(out), t \in Slots(out), p \in Pixels(out) :
            LET q == Contributed(plane, t, p)
            IN  Cell(out, plane, t, p) =
                    IF q = <<>> THEN NaN
                    ELSE IF method = "MIN" THEN MinOf(q) ELSE MaxOf(q)

\* the chunk that read returns when the band planes of feed are fed in order
RECURSIVE Replay(_, _, _, _, _)
Replay(m, o, ic, vc, feed) ==
    IF feed = <<>> THEN o
    ELSE LET e == Head(feed)
             r == band_step(m, o, ic, vc, e.band_num, e.b, e.t, e.img)
         IN  Replay(m, r.out, r.ic, r.vc, Tail(feed))

\* the orders in which the images (descriptors) of fed can come
ImageOrders ==
    LET ds == {fed[k].descriptor : k \in 1..Len(fed)}
    IN  {o \in [1..Cardinality(ds) -> ds] :
            \A k, l \in 1..Cardinality(ds) : k # l => o[k] # o[l]}

\* the planes of fed with the images in the order o, each image's own bands
\* in their order
RECURSIVE InOrder(_, _)
InOrder(o, k) ==
    IF k > Len(o) THEN <<>>
    ELSE SelectSeq(fed, LAMBDA e : e.descriptor = o[k]) \o InOrder(o, k + 1)

\* C3: for mean, min and max the returned chunk is the same for every order
\* in which the images of the chunk are fed to the aggregator
C3_OrderIndependent ==
    (Returned /\ method \in {"MEAN", "MIN", "MAX"}) =>
        \A o \in ImageOrders :
            Replay(method, [out EXCEPT !.buf = calloc(Len(out.buf))], NoMap, NoMap,
                   InOrder(o, 1)) = out

\* C4: under NONE a slot (b,t) that images map to holds, pixel for pixel,
\* the plane of the last of them in catalog order, and the aggregator keeps
\* no state between images
C4_NoneLastWriterWins ==
    method = "NONE" =>
        /\ img_count = NoMap
        /\ val_count = NoMap
        /\ Returned =>
              \A plane \in Planes(out), t \in Slots(out) :
                  LET m == Mapped(plane, t)
                  IN  m # <<>> =>
                          \A p \in Pixels(out) :
                              Cell(out, plane, t, p) = m[Len(m)].img[p]

\* two images were written to the same slot with different planes, NaN
\* pixels in the last one, and the chunk was returned
C4_Witness ==
    /\ Returned
    /\ method = "NONE"
    /\ \E plane \in Planes(out), t \in Slots(out) :
          LET m == Mapped(plane, t)
          IN  /\ Len(m) = 2
              /\ m[1].img # m[2].img
              /\ \E p \in Pixels(out) : isnan(m[2].img[p]) /\ ~isnan(m[1].img[p])


(***************************************************************************)
(* Properties of the reduce-over-space cube                                *)
(***************************************************************************)
\* C5: read and read_chunk return an empty chunk for every id outside
\* [0, count_chunks), without a catalog query, a raster read, a read of an
\* input chunk or an error
C5_OutsideIdReturnsEmpty ==
    /\ (pc \in {"group", "band", "finalize", "done", "error", "crashed"}
            /\ (id < 0 \/ id >= count_chunks(cube))) =>
          /\ pc = "done"
          /\ out = EmptyChunk
          /\ queried = 0
          /\ fed = <<>>
    /\ (pc \in {"rs_combine", "rs_done", "rs_error"}
            /\ (id < 0 \/ id >= rs_count_chunks(cube))) =>
          /\ pc = "rs_done"
          /\ out = EmptyChunk
          /\ reads = <<>>

\* the source was asked for the first id past its last chunk and returned
C5_Witness == pc = "done" /\ id = count_chunks(cube) /\ out = EmptyChunk

\* the reducers of the chunk ran: the id is inside the cube and the input
\* cube has more than one pixel
Reduced ==
    /\ pc = "rs_done"
    /\ ~outside(id, rs_count_chunks(cube))
    /\ ~(cube.ny = 1 /\ cube.nx = 1)

\* the chunk that read_chunk builds from the pairs rb and the input chunks
\* of rd, in their order
RECURSIVE combine_reads(_, _, _)
combine_reads(s, rd, k) ==
    IF k > Len(rd) THEN s
    ELSE combine_reads(combine_all(s.a, s.rds, rd[k].chunk, 1), rd, k + 1)

reduce_result(rb, st, rd) ==
    LET size_btyx == <<Len(rb), st, 1, 1>>
        a == [size |-> size_btyx, buf |-> [k \in 1..Cells(size_btyx) |-> NaN]]
        s == combine_reads(init_all(a, <<>>, rb, in_bands, 1), rd, 1)
    IN  finalize_all(s.a, s.rds, 1)

\* C6: for every input cube and every valid id the chunk returned has size
\* [nb_out, chunk_size(id).t, 1, 1], nb_out the number of pairs, and its
\* band i is the result of the i-th pair
C6_OutputShape ==
    (pc = "rs_done" /\ ~outside(id, rs_count_chunks(cube))) =>
        /\ out.size = <<Len(reducer_bands), rs_chunk_size(cube, id)[1], 1, 1>>
        /\ \A k \in 1..Len(reducer_bands), t \in 0..(rs_chunk_size(cube, id)[1] - 1) :
              Cell(out, k - 1, t, 1) =
                  Cell(reduce_result(<<reducer_bands[k]>>, rs_chunk_size(cube, id)[1], reads),
                       0, t, 1)

\* the ids of the input chunks read so far, in the order of the calls
ReadIds == [k \in 1..Len(reads) |-> reads[k].id]

\* C7: for a valid id, read_chunk reads the input chunks
\* id*ncy*ncx .. (id+1)*ncy*ncx - 1, each once and no other; they are the
\* input chunks of time chunk id
C7_ReadsItsColumnOnce ==
    (pc \in {"rs_combine", "rs_done", "rs_error"} /\ ~outside(id, rs_count_chunks(cube))) =>
        LET n == count_chunks_y(cube) * count_chunks_x(cube)
        IN  /\ Len(reads) <= n
            /\ \A k \in 1..Len(reads) : ReadIds[k] = id * n + (k - 1)
            /\ pc = "rs_done" =>
                  /\ Len(reads) = n
                  /\ \A c \in 0..(count_chunks(cube) - 1) :
                        (\E k \in 1..Len(reads) : ReadIds[k] = c)
                            <=> chunk_coords(cube, c)[1] = id

\* a column of 2 x 2 input chunks that is not the first was read and reduced
C7_Witness ==
    /\ Reduced
    /\ id = 1
    /\ count_chunks_y(cube) = 2 /\ count_chunks_x(cube) = 2
    /\ ReadIds = <<4, 5, 6, 7>>

\* the non-NaN values of band bidx (0-based) in time slot t over all input
\* chunks combined
RECURSIVE Combined(_, _, _)
Combined(bidx, t, k) ==
    IF k > Len(reads) THEN <<>>
    ELSE LET x == reads[k].chunk
             q == IF x = EmptyChunk THEN <<>>
                  ELSE [p \in 1..(x.size[3] * x.size[4]) |-> Cell(x, bidx, t, p)]
         IN  SelectSeq(q, LAMBDA v : ~isnan(v)) \o Combined(bidx, t, k + 1)

RECURSIVE ProdSeq(_)
ProdSeq(q) == IF q = <<>> THEN D(1) ELSE dmul(Head(q), ProdSeq(Tail(q)))

\* q in ascending order
Ascending(q) ==
    LET perms == {f \in [1..Len(q) -> 1..Len(q)] :
                     \A k, l \in 1..Len(q) : k # l => f[k] # f[l]}
        f == CHOOSE g \in perms : \A k \in 1..(Len(q) - 1) : ~dless(q[g[k + 1]], q[g[k]])
    IN  [k \in 1..Len(q) |-> q[f[k]]]

Median(q) ==
    LET a == Ascending(q)
        n == Len(q)
    IN  IF n = 0 THEN NaN
        ELSE IF n % 2 = 1 THEN a[(n + 1) \div 2]
        ELSE ddiv(dadd(a[n \div 2], a[(n \div 2) + 1]), D(2))

Reference(name, q) ==
    IF name = "sum" THEN SumSeq(q)
    ELSE IF name = "prod" THEN ProdSeq(q)
    ELSE IF name = "count" THEN D(Len(q))
    ELSE IF name = "min" THEN (IF q = <<>> THEN NaN ELSE MinOf(q))
    ELSE IF name = "max" THEN (IF q = <<>> THEN NaN ELSE MaxOf(q))
    ELSE Median(q)

\* C8: for sum, prod, count, min, max and median the finalized value of
\* every (output band, time slot) is the reference operator applied to the
\* non-NaN pixels of the input band in that slot over all combined chunks
C8_ReducersMatchReference ==
    Reduced =>
        \A k \in 1..Len(reducer_bands), t \in Slots(out) :
            reducer_bands[k][1] \in {"sum", "prod", "count", "min", "max", "median"} =>
                Cell(out, k - 1, t, 1) =
                    Reference(reducer_bands[k][1],
                              Combined(get_index(in_bands, reducer_bands[k][2]), t, 1))

\* a median over an even number of distinct values from two input chunks,
\* one of which also held a NaN in that band
C8_Witness ==
    /\ Reduced
    /\ reducer_bands = <<<<"median", "B08">>>>
    /\ Len(reads) = 2
    /\ \E t \in Slots(out) :
          /\ Len(Combined(1, t, 1)) = 2
          /\ Combined(1, t, 1)[1] # Combined(1, t, 1)[2]
    /\ \E k \in 1..2 : reads[k].chunk # EmptyChunk /\
          \E c \in 1..Len(reads[k].chunk.buf) : isnan(reads[k].chunk.buf[c])

\* C9: the output of the mean reducer is the output of the sum reducer
\* divided by the output of the count reducer on the same input when the
\* count is positive, and NaN when it is 0
C9_MeanIsSumOverCount ==
    Reduced =>
        \A m, u, c \in 1..Len(reducer_bands) :
            (/\ reducer_bands[m][1] = "mean"
             /\ reducer_bands[u][1] = "sum"
             /\ reducer_bands[c][1] = "count"
             /\ reducer_bands[m][2] = reducer_bands[u][2]
             /\ reducer_bands[m][2] = reducer_bands[c][2]) =>
                \A t \in Slots(out) :
                    Cell(out, m - 1, t, 1) =
                        IF dless(D(0), Cell(out, c - 1, t, 1))
                        THEN ddiv(Cell(out, u - 1, t, 1), Cell(out, c - 1, t, 1))
                        ELSE NaN

\* mean, sum and count ran on one band with three values counted
C9_Witness ==
    /\ Reduced
    /\ Len(reducer_bands) = 3
    /\ \E c \in 1..3 : reducer_bands[c][1] = "count" /\ Cell(out, c - 1, 0, 1) = D(3)
    /\ \E m \in 1..3 : reducer_bands[m][1] = "mean" /\ Cell(out, m - 1, 0, 1) = D(1)

\* the state after every reducer from ib on has accumulated the values of x
\* that it keeps: the finite ones (fin), or the non-NaN ones
RECURSIVE keep_all(_, _, _, _, _)
keep_all(a, rds, x, ib, fin) ==
    IF ib > Len(rds) THEN [a |-> a, rds |-> rds]
    ELSE LET q == SelectSeq(pixel_list(x, rds[ib].band_idx_in),
                            LAMBDA e : IF fin THEN isfinite(e[2]) ELSE ~isnan(e[2]))
             r == accumulate_all([a |-> a, rd |-> rds[ib]], q)
         IN  keep_all(r.a, [rds EXCEPT ![ib] = r.rd], x, ib + 1, fin)

\* a round of the combine loop
CombineStep == pc = "rs_combine" /\ pc' = "rs_combine" /\ i' = i + 1

C11_AllNaNGivesNaN ==
    Reduced =>
        \A k \in 1..Len(reducer_bands), t \in Slots(out) :
            Combined(get_index(in_bands, reducer_bands[k][2]), t, 1) = <<>> =>
                Cell(out, k - 1, t, 1) = NaN

\* what a reducer leaves where it combined no value
EmptyResult(name) ==
    IF name \in {"sum", "count"} THEN D(0)
    ELSE IF name = "prod" THEN D(1)
    ELSE NaN

\* C11 as amended: where all input pixels of a band in a time slot are NaN
\* (or all input chunks are empty) the output is NaN for min, max, mean,
\* median, var and sd, 0 for sum and count and 1 for prod, and nothing was
\* counted: the counters of mean, var and sd are 0, the median bucket empty
C11_AllNaNGivesEmptyResult ==
    /\ Reduced =>
          \A k \in 1..Len(reducer_bands), t \in Slots(out) :
              Combined(get_index(in_bands, reducer_bands[k][2]), t, 1) = <<>> =>
                  Cell(out, k - 1, t, 1) = EmptyResult(reducer_bands[k][1])
    /\ pc = "rs_combine" =>
          \A ib \in 1..Len(reducers), t \in Slots(out) :
              Combined(reducers[ib].band_idx_in, t, 1) = <<>> =>
                  /\ reducers[ib].name \in {"mean", "var", "sd"} =>
                        reducers[ib].count[t + 1] = 0
                  /\ reducers[ib].name = "median" => reducers[ib].buckets[t + 1] = <<>>

\* min ran over two input chunks, one empty and one whose pixels of the
\* band are all NaN in a slot while its other band holds a value
C11_Witness ==
    /\ Reduced
    /\ reducer_bands = <<<<"min", "B04">>>>
    /\ Len(reads) = 2
    /\ reads[1].chunk = EmptyChunk
    /\ reads[2].chunk # EmptyChunk
    /\ Combined(0, 0, 1) = <<>>
    /\ Combined(1, 0, 1) # <<>>
    /\ Cell(out, 0, 0, 1) = NaN


\* the <<slot, value>> entries of band bidx of the input chunks read, from
\* read k on, in the order the combine calls see them
RECURSIVE AllValues(_, _)
AllValues(bidx, k) ==
    IF k > Len(reads) THEN <<>>
    ELSE pixel_list(reads[k].chunk, bidx) \o AllValues(bidx, k + 1)

Perms(n) == {f \in [1..n -> 1..n] : \A k, l \in 1..n : k # l => f[k] # f[l]}

\* the permutations of the entry lists of the input cubes, by length: a time
\* column has at most cs_t * ny * nx entries per band
PermsByLen ==
    LET most == CHOOSE m \in {c[1].cs_t * c[1].ny * c[1].nx : c \in RsConfigs} :
                    \A c \in RsConfigs : c[1].cs_t * c[1].ny * c[1].nx <= m
    IN  [n \in 0..most |-> Perms(n)]

\* the finalized one-band chunk of st slots that reducer name gives when it
\* combines the entries of q in their order
reduce_list(name, st, q) ==
    LET a == [size |-> <<1, st, 1, 1>>, buf |-> [k \in 1..st |-> NaN]]
        r == init(name, a, 0, 0)
        s == combine_list([a |-> r.a, rd |-> r.rd], q)
    IN  finalize(s.a, s.rd)

RECURSIVE SumSqDev(_, _)
SumSqDev(q, m) ==
    IF q = <<>> THEN D(0)
    ELSE dadd(dmul(dsub(Head(q), m), dsub(Head(q), m)), SumSqDev(Tail(q), m))

\* sample variance of two or more values
SampleVar(q) == ddiv(SumSqDev(q, ArithMean(q)), D(Len(q) - 1))

\* the square of what dsqrt returned
Square(v) == IF Len(v) = 3 THEN <<v[1], v[2]>> ELSE dmul(v, v)

\* C13: var outputs NaN where fewer than two non-NaN values were combined
\* and the sample variance of the combined values otherwise; sd outputs NaN
\* in the same slots and otherwise a value whose square is the var output
C13_VarAndSd ==
    Reduced =>
        /\ \A k \in 1..Len(reducer_bands), t \in Slots(out) :
              LET q == Combined(get_index(in_bands, reducer_bands[k][2]), t, 1)
                  v == IF Len(q) < 2 THEN NaN ELSE SampleVar(q)
                  c == Cell(out, k - 1, t, 1)
              IN  /\ reducer_bands[k][1] = "var" => c = v
                  /\ reducer_bands[k][1] = "sd" =>
                        /\ isnan(c) <=> isnan(v)
                        /\ ~isnan(c) => Square(c) = v
        /\ \A m, d \in 1..Len(reducer_bands), t \in Slots(out) :
              (/\ reducer_bands[m][1] = "var"
               /\ reducer_bands[d][1] = "sd"
               /\ reducer_bands[m][2] = reducer_bands[d][2]) =>
                  /\ isnan(Cell(out, d - 1, t, 1)) <=> isnan(Cell(out, m - 1, t, 1))
                  /\ ~isnan(Cell(out, d - 1, t, 1)) =>
                        Square(Cell(out, d - 1, t, 1)) = Cell(out, m - 1, t, 1)

\* sd ran on a band that held two different values in one slot, which gave
\* the irrational root of the variance 9/2, and one value in the other slot,
\* which gave NaN
C13_Witness ==
    /\ Reduced
    /\ Len(reducer_bands) = 1
    /\ reducer_bands[1][1] = "sd"
    /\ \E t, u \in Slots(out) :
          /\ Len(Cell(out, 0, t, 1)) = 3
          /\ Square(Cell(out, 0, t, 1)) = <<9, 2>>
          /\ Len(Combined(get_index(in_bands, reducer_bands[1][2]), u, 1)) = 1
          /\ isnan(Cell(out, 0, u, 1))


\* C16: when opening, cropping or warping the raster of a descriptor fails,
\* the read stops with an error: no band plane is ever read from a
\* descriptor whose translate or warp failed, and the read does not go on
\* to its band loop, its next descriptor or its return
C16_FailureAborts ==
    /\ \A k \in 1..Len(fed) : fed[k].warped
    /\ ~warp_ok => pc = "error"

(***************************************************************************)
(* Properties of the graph factory                                         *)
(***************************************************************************)
\* the source node of a graph
RECURSIVE source_of(_)
source_of(n) == IF n.cube_type = "image_collection" THEN n ELSE source_of(n.in_cube)

\* the graph was serialized, its collection file is there, and
\* create_from_json was called on the description
Rebuilt ==
    /\ pc \in {"g_built", "g_error"}
    /\ ~IsThrown(json)
    /\ source_of(graph).file \in fs

\* C14: a graph serialized with make_constructible_json and rebuilt with
\* create_from_json is the same graph: every node has the same cube type
\* and operator parameters, the source its chunk size, view, warp
\* arguments, mask and mask band
C14_GraphRoundTrip ==
    Rebuilt => (pc = "g_built" /\ rebuilt = graph)

\* C15: create_from_json of a node of cube_type "reduce_space" returns a
\* reduce-over-space cube: it keeps the time axis of its input and has
\* nx = ny = 1, and is not the cube built for "reduce_time"
C15_ReduceSpaceFromJson ==
    (pc = "g_built" /\ json.cube_type = "reduce_space") =>
        /\ rebuilt.cube_type = "reduce_space"
        /\ geometry(rebuilt) =
              [nt |-> geometry(rebuilt.in_cube).nt, ny |-> 1, nx |-> 1]
        /\ rebuilt # create_from_json([json EXCEPT !.cube_type = "reduce_time"], fs)


(***************************************************************************)
(* Properties of concurrent reads                                          *)
(***************************************************************************)
\* C17: two concurrent calls of read on different chunk ids share no
\* mutable state: what a call reads is what it reads when it runs alone,
\* the warped planes of its own descriptors, and a temporary file is
\* written by one call only
C17_CallsSharePrivateState ==
    \A c \in Calls :
        /\ \A k \in 1..Len(calls[c].got) : calls[c].got[k] = calls[c].rasters[k]
        /\ calls[c].pc \in {"warp", "read", "close"} =>
              \A d \in Calls \ {c} :
                  ~(calls[d].pc \in {"warp", "read", "close"} /\
                        tif_name(calls[d].i) = tif_name(calls[c].i))


(***************************************************************************)
(* Properties of image masks                                               *)
(***************************************************************************)
\* the predicate of a mask on a mask value: the value is in the value set,
\* or min <= value <= max
Predicate(m, v) ==
    IF m.kind = "value_mask" THEN \E w \in m.m_mask_values : ~isnan(v) /\ w = v
    ELSE dleq(m.m_min, v) /\ dleq(v, m.m_max)

\* C18: a mask sets all bands of a pixel to NaN exactly where its predicate
\* holds, or with invert exactly where it does not hold, whatever the mask
\* value, NaN included, and leaves every other value unchanged
C18_MaskFiresOnPredicate ==
    pc = "m_done" =>
        \A ib \in 0..(MaskedBands - 1), ixy \in 1..MaskedPixels :
            LET fires == IF mask.m_invert THEN ~Predicate(mask, mask_buf[ixy])
                         ELSE Predicate(mask, mask_buf[ixy])
            IN  masked[ib * MaskedPixels + ixy] =
                    IF fires THEN NaN ELSE pixel_buf[ib * MaskedPixels + ixy]


(***************************************************************************)
(* Shape and band planes of the chunks of the image-collection source      *)
(***************************************************************************)
\* C19: the chunk read returns is empty or has size [number of collection
\* bands, chunk_size(id)] with a buffer of that many cells; for a valid id
\* it is empty exactly when the catalog returned no row
C19_EmptyOrChunkSize ==
    pc = "done" =>
        IF outside(id, count_chunks(cube)) THEN out = EmptyChunk
        ELSE LET size_tyx == chunk_size(cube, id)
             IN  /\ (out = EmptyChunk) <=> (datasets = <<>>)
                 /\ out # EmptyChunk =>
                       /\ out.size = <<Len(bands), size_tyx[1], size_tyx[2], size_tyx[3]>>
                       /\ Len(out.buf) =
                              Len(bands) * size_tyx[1] * size_tyx[2] * size_tyx[3]

\* the boundary chunk, shorter in time than chunk_size, was read from a
\* catalog with rows and returned
C19_Witness ==
    /\ pc = "done"
    /\ id = count_chunks(cube) - 1
    /\ chunk_size(cube, id)[1] < cube.cs_t
    /\ datasets # <<>>
    /\ out.size = <<Len(bands), 1, 2, 1>>
    /\ Len(out.buf) = 4

\* index of the band plane of the chunk that the plane read for the row
\* e was written to or aggregated into
plane_of(e) ==
    plane_offset(out.size, e.band_num, e.t) \div (out.size[2] * out.size[3] * out.size[4])

\* C20: each band read from an image goes to the plane whose index is the
\* position of that band in bands(), never to a plane outside
\* [0, number of bands)
C20_PlaneIsBandPosition ==
    \A k \in 1..Len(fed) :
        /\ plane_of(fed[k]) = fed[k].band_name - 1
        /\ plane_of(fed[k]) \in 0..(Len(bands) - 1)


(***************************************************************************)
(* Properties of graph construction                                        *)
(***************************************************************************)
\* C21: create_from_json raises an error and returns no cube when the node
\* it is given has no cube_type key or a cube_type no generator is
\* registered for
C21_UnknownDiscriminatorRaises ==
    (/\ pc \in {"g_desc_built", "g_desc_error"}
     /\ \/ "cube_type" \notin DOMAIN json
        \/ json.cube_type \notin {"image_collection", "reduce", "reduce_time",
                                  "reduce_space"}) =>
        /\ pc = "g_desc_error"
        /\ IsThrown(rebuilt)

\* the factory was given a source description whose file exists and whose
\* cube_type is not registered, and it raised
C21_Witness ==
    /\ pc = "g_desc_error"
    /\ "cube_type" \in DOMAIN json
    /\ json.cube_type = "no_such_cube"
    /\ "file" \in DOMAIN json
    /\ json.file \in fs
    /\ "mask" \notin DOMAIN json
    /\ rebuilt = Thrown("bad_function_call")

\* the step is a call of reduce_cube::create that returned a cube
Created == call'.op = "create" /\ ~call'.thrown

\* C22: the cube reduce_cube builds has t1 = t0, the step t1 - t0 of its
\* input and nt = 1, chunk size 1 and one chunk along time, the y and x
\* chunk sizes, the extent and the SRS of its input, and one band per input
\* band in the same order; set_st_reference keeps its single time step
C22_ReduceCubeGeometry ==
    /\ [](pc = "cons" =>
            \A k \in 1..Len(cubes) :
                cubes[k].cube_type = "reduce" =>
                    /\ cubes[k].st_ref.t1 = cubes[k].st_ref.t0
                    /\ nt(cubes[k].st_ref) = 1
                    /\ cubes[k].chunk_size[1] = 1
                    /\ CeilDiv(nt(cubes[k].st_ref), cubes[k].chunk_size[1]) = 1
                    /\ Len(cubes[k].bands) = Len(cubes[cubes[k].in_cube].bands))
    /\ [][Created =>
            LET in == cubes[call'.in]
                c == cubes'[call'.returned]
            IN  /\ c.st_ref.t0 = in.st_ref.t0
                /\ c.st_ref.t1 = in.st_ref.t0
                /\ c.st_ref.dt = in.st_ref.t1 - in.st_ref.t0
                /\ c.chunk_size = <<1, in.chunk_size[2], in.chunk_size[3]>>
                /\ c.st_ref.win = in.st_ref.win
                /\ c.st_ref.proj = in.st_ref.proj
                /\ c.st_ref.ny = in.st_ref.ny
                /\ c.st_ref.nx = in.st_ref.nx
                /\ \A ib \in 1..Len(in.bands) :
                      SubSeq(c.bands[ib], 1, Len(in.bands[ib])) = in.bands[ib]]_vars

\* a reduce cube was built over a source of three time steps and chunks of
\* 2 x 2 x 1
C22_Witness ==
    /\ pc = "cons"
    /\ call.op = "create"
    /\ ~call.thrown
    /\ call.in = 1
    /\ nt(cubes[1].st_ref) = 3
    /\ cubes[1].chunk_size = <<2, 2, 1>>
    /\ cubes[call.returned].chunk_size = <<1, 2, 1>>
    /\ cubes[call.returned].st_ref.dt = 2
    /\ cubes[call.returned].bands = <<<<"B04", "mean">>, <<"B08", "mean">>>>

\* C23: reduce_cube over a cube of one time step gives nt = 1 with the
\* t0 and the t1 of the input, and band names equal to the input's
C23_ReduceOfReducedIsIdentity ==
    [][(Created /\ size_t(cubes[call'.in]) = 1) =>
          LET in == cubes[call'.in]
              c == cubes'[call'.returned]
          IN  /\ nt(c.st_ref) = 1
              /\ c.st_ref.t0 = in.st_ref.t0
              /\ c.st_ref.t1 = in.st_ref.t1
              /\ c.bands = in.bands]_vars

\* C23, amended: reduce_cube over a cube of one time step gives nt = 1
\* with the t0 of the input and t1 = t0, which is the t1 of the input when
\* the input has t1 = t0, as every reduce cube has; the band names are the
\* input's
C23_ReduceOfOneStepCube ==
    [][(Created /\ size_t(cubes[call'.in]) = 1) =>
          LET in == cubes[call'.in]
              c == cubes'[call'.returned]
          IN  /\ nt(c.st_ref) = 1
              /\ c.st_ref.t0 = in.st_ref.t0
              /\ c.st_ref.t1 = in.st_ref.t0
              /\ (in.cube_type = "reduce" \/ in.st_ref.t1 = in.st_ref.t0) =>
                    c.st_ref.t1 = in.st_ref.t1
              /\ c.bands = in.bands]_vars

\* a reduce cube was built over a reduce cube of a source of three time
\* steps: the second reducer left no suffix
C23_Witness ==
    /\ pc = "cons"
    /\ call.op = "create"
    /\ ~call.thrown
    /\ cubes[call.in].cube_type = "reduce"
    /\ cubes[call.in].bands = <<<<"B04", "mean">>, <<"B08", "mean">>>>
    /\ cubes[call.returned].reducer = "median"
    /\ cubes[call.returned].bands = cubes[call.in].bands
    /\ cubes[call.returned].st_ref.t1 = cubes[call.in].st_ref.t1

\* C24: reduce_cube::create with a reducer that is none of min, max, mean,
\* median, count, var, sd, prod and sum raises an error, returns no cube
\* and leaves the child list of the input cube, and every cube, as it was
C24_UnknownReducerFails ==
    [][(/\ call'.op = "create"
        /\ call'.reducer \notin {"min", "max", "mean", "median", "count", "var",
                                 "sd", "prod", "sum"}) =>
          /\ call'.thrown
          /\ call'.returned = 0
          /\ Len(cubes') = Len(cubes)
          /\ cubes'[call'.in].children = cubes[call'.in].children
          /\ cubes' = cubes]_vars

\* create was called with the reducer "mode" on a cube that has a child
\* already, and it raised
C24_Witness ==
    /\ pc = "cons"
    /\ call.op = "create"
    /\ call.reducer = "mode"
    /\ call.thrown
    /\ call.returned = 0
    /\ cubes[call.in].children = <<2>>
    /\ Len(cubes) = 2

\* C29: after any sequence of reduce_cube::create and set_chunk_size calls
\* the y and x chunk sizes of every reduce cube are those of its input cube
C29_ChunkSizesFollowInput ==
    pc = "cons" =>
        \A k \in 1..Len(cubes) :
            cubes[k].cube_type = "reduce" =>
                /\ cubes[k].chunk_size[2] = cubes[cubes[k].in_cube].chunk_size[2]
                /\ cubes[k].chunk_size[3] = cubes[cubes[k].in_cube].chunk_size[3]


(***************************************************************************)
(* The counters of the mean aggregator                                     *)
(***************************************************************************)
\* the band planes and time slots of the chunk that images were fed to
FedSlots == {<<fed[k].band_num - 1, fed[k].t>> : k \in 1..Len(fed)}

\* C25: the mean aggregator counts the images per chunk slot (band plane,
\* time slot): the first plane written to a slot is copied verbatim, and
\* the count of a slot is the number of images fed to that slot, whatever
\* bands each descriptor carries
C25_MeanCountsPerSlot ==
    (method = "MEAN" /\ pc \in {"band", "group", "finalize"} /\ fed # <<>>) =>
        LET e == fed[Len(fed)]
            plane == e.band_num - 1
        IN  /\ (Len(Mapped(plane, e.t)) = 1 /\ plane \in Planes(out)) =>
                  \A p \in Pixels(out) : Cell(out, plane, e.t, p) = e.img[p]
            /\ DOMAIN img_count = FedSlots
            /\ \A s \in FedSlots : img_count[s] = Len(Mapped(s[1], s[2]))


(***************************************************************************)
(* Row accesses of the grouping loop                                       *)
(***************************************************************************)
\* C28: while the rows are grouped by descriptor and a group is processed,
\* every access datasets[k] has 0 <= k < datasets.size(), also after the
\* grouping loop has moved the index past the last row of the group
C28_RowAccessInRange ==
    pc = "band" =>
        \A k \in row_accesses(datasets, i - Len(band_rels)) :
            0 <= k /\ k < Len(datasets)


\* C26: when reduce_space_cube::read_chunk has ended, normally or by an
\* exception, every reducer that was initialised has been finalized and
\* deleted, so that no reducer still holds the buffers its init allocated
C26_ReducersFinalizedAndFreed ==
    pc \in {"rs_done", "rs_error"} => reducers = <<>>


(***************************************************************************)
(* Properties of point queries                                             *)
(***************************************************************************)
\* the entry of band ib (1-based) the claim gives point p of the query
Expected(ib, p) ==
    LET c == find_chunk_that_contains(cube, p)
        dat == q_read_chunk_data(cube, dats, c)
        t == it_of(cube, p) % cube.cs_t
        y == dat.size[3] - 1 - (floor(iy(cube, p)) % cube.cs_y)
        x == floor(ix(cube, p)) % cube.cs_x
    IN  IF c >= count_chunks(cube) THEN NaN
        ELSE IF dat = EmptyChunk THEN NaN
        ELSE IF t >= dat.size[2] \/ y < 0 \/ y >= dat.size[3] \/ x >= dat.size[4] THEN NaN
        ELSE dat.buf[(((ib - 1) * dat.size[2] + t) * dat.size[3] + y) * dat.size[4] + x + 1]

\* C27: query_points returns one row per band and one column per point,
\* entry [b][i] is NaN when the chunk id of point i is not below
\* count_chunks, its chunk is empty or an in-chunk index is outside the
\* chunk's size, and is otherwise the value of band b at the in-chunk index
\* of point i; read_chunk is called at most once per chunk id and never with
\* an id outside the cube
C27_QueryPointsByColumn ==
    /\ \A k, n \in 1..Len(read_ids) :
           /\ read_ids[k] >= 0 /\ read_ids[k] < count_chunks(cube)
           /\ (k # n => read_ids[k] # read_ids[n])
    /\ pc = "q_done" =>
           /\ Len(matrix) = cube.nb
           /\ \A ib \in 1..Len(matrix) :
                  /\ Len(matrix[ib]) = Len(points)
                  /\ \A k \in 1..Len(points) : matrix[ib][k] = Expected(ib, points[k])

\* a query of two points whose chunks are visited in the other order, both
\* with a value
C27_Witness ==
    /\ pc = "q_done"
    /\ Len(points) = 2
    /\ find_chunk_that_contains(cube, points[1]) > find_chunk_that_contains(cube, points[2])
    /\ Len(read_ids) = 2
    /\ ~isnan(matrix[1][1]) /\ ~isnan(matrix[1][2])
    /\ matrix[1][1] # matrix[1][2]


(***************************************************************************)
(* Properties of the configuration singleton                               *)
(***************************************************************************)
\* C30: when several threads call config::instance() before the singleton
\* exists, one config object is constructed and every call of every thread
\* returns the same pointer
C30_OneConfigForAllCallers ==
    /\ configs <= 1
    /\ \A th, uh \in DOMAIN callers :
           \A k \in 1..Len(callers[th].got), n \in 1..Len(callers[uh].got) :
               callers[th].got[k] = callers[uh].got[n]

=============================================================================
